---- MODULE Spec2Model ----
(***************************************************************************)
(* Model of xiam/textreader: a buffered reader over a byte source that     *)
(* tracks (line, column, offset), supports one level of unread and seeks   *)
(* inside its buffered window.                                             *)
(*                                                                         *)
(* TextReader : src/unnamed/part_001 lines 347-746                         *)
(* Position   : src/position/position_ai_test.go lines 377-557             *)
(***************************************************************************)
EXTENDS Integers, Sequences, FiniteSets, TLC

VARIABLES
    input,          \* the bytes the source will deliver, in order
    capacity,       \* TextReader.capacity
    src,            \* number of bytes the source has delivered so far
    buf,            \* TextReader.buf, a sequence of capacity bytes
    r,              \* TextReader.r (0-based read cursor)
    w,              \* TextReader.w (0-based write cursor)
    lastRuneSize,   \* TextReader.lastRuneSize
    lastByte,       \* TextReader.lastByte
    runesPerLine,   \* Position.runesPerLine
    bytesPerLine,   \* Position.bytesPerLine
    offset,         \* Position.offset
    out,            \* code points a read-all-runes loop has received so far
    done,           \* whether that loop has ended, and on which error
    mu,             \* who holds TextReader.mu and the mu of a shared Position
    threads,        \* the concurrent callers: where each is in its call
    shared,         \* a Position that concurrent callers share
    history,        \* what the concurrent callers' finished calls did
    heap,           \* the backing arrays of the slices of Position objects
    objs            \* the Position objects: the reader's and its snapshots

vars == <<input, capacity, src, buf, r, w, lastRuneSize, lastByte,
          runesPerLine, bytesPerLine, offset, out, done,
          mu, threads, shared, history, heap, objs>>

\* The variables of the concurrent callers and of the snapshots.
callers == <<mu, threads, shared, history, heap, objs>>

(***************************************************************************)
(* Bounds of the model.                                                    *)
(***************************************************************************)
MaxLen == 3         \* longest input, in bytes
MaxRead == 3        \* longest span handed to Read that fits the buffer
MaxSeek == 3        \* largest seek offset, in absolute value
MaxDrift == 1       \* largest miscount of a line's rune count that is followed
MaxScan == 4        \* longest span handed to Position.Scan, in bytes
MaxRewind == 5      \* largest count handed to Position.Rewind
MaxOffset == 6      \* largest offset of a Position on its own
MaxThreads == 2     \* number of concurrent callers
MaxObjects == 3     \* number of Position objects: the reader's and copies
MaxObjOffset == 2   \* largest offset of a Position object

(***************************************************************************)
(* Program constants.                                                      *)
(***************************************************************************)
UTFMax == 4
RuneError == 65533
RuneSelf == 128
newLine == 10
SeekStart == 0
SeekCurrent == 1
SeekEnd == 2

Min(a, b) == IF a <= b THEN a ELSE b

SubSeqOrEmpty(s, m, n) == IF m > n THEN <<>> ELSE SubSeq(s, m, n)

\* Go slice s[lo:hi] of a sequence (0-based, half open).
Slice(s, lo, hi) == SubSeqOrEmpty(s, lo + 1, hi)

(***************************************************************************)
(* unicode/utf8                                                            *)
(***************************************************************************)
IsCont(b) == b >= 128 /\ b <= 191

\* Size announced by a lead byte, 0 for a byte that cannot start a sequence.
LeadSize(b) ==
    IF b < RuneSelf THEN 1
    ELSE IF b >= 194 /\ b <= 223 THEN 2
    ELSE IF b >= 224 /\ b <= 239 THEN 3
    ELSE IF b >= 240 /\ b <= 244 THEN 4
    ELSE 0

\* Range accepted for the second byte of a sequence starting with b.
AcceptLo(b) == IF b = 224 THEN 160 ELSE IF b = 240 THEN 144 ELSE 128
AcceptHi(b) == IF b = 237 THEN 159 ELSE IF b = 244 THEN 143 ELSE 191

\* utf8.DecodeRune: the first code point of p and its width in bytes;
\* (RuneError, 1) for an invalid or truncated sequence, (RuneError, 0) for
\* an empty p.
DecodeRune(p) ==
    IF Len(p) = 0 THEN [rune |-> RuneError, size |-> 0]
    ELSE LET p0 == p[1]
             sz == LeadSize(p0)
             bad == [rune |-> RuneError, size |-> 1]
         IN  IF sz = 1 THEN [rune |-> p0, size |-> 1]
             ELSE IF sz = 0 \/ Len(p) < sz THEN bad
             ELSE IF p[2] < AcceptLo(p0) \/ p[2] > AcceptHi(p0) THEN bad
             ELSE IF sz = 2
                  THEN [rune |-> ((p0 % 32) * 64) + (p[2] % 64), size |-> 2]
             ELSE IF ~IsCont(p[3]) THEN bad
             ELSE IF sz = 3
                  THEN [rune |-> ((p0 % 16) * 4096) + ((p[2] % 64) * 64)
                                 + (p[3] % 64),
                        size |-> 3]
             ELSE IF ~IsCont(p[4]) THEN bad
             ELSE [rune |-> ((p0 % 8) * 262144) + ((p[2] % 64) * 4096)
                            + ((p[3] % 64) * 64) + (p[4] % 64),
                   size |-> 4]

\* utf8.RuneCount: number of code points in p, an invalid byte counting as
\* one code point of width 1.
RECURSIVE RuneCount(_)
RuneCount(p) ==
    IF Len(p) = 0 THEN 0
    ELSE 1 + RuneCount(Slice(p, DecodeRune(p).size, Len(p)))

\* utf8.EncodeRune / strings.Builder.WriteRune: the bytes of one code point.
EncodeRune(c) ==
    IF c < 128 THEN <<c>>
    ELSE IF c < 2048 THEN <<192 + (c \div 64), 128 + (c % 64)>>
    ELSE IF c >= 55296 /\ c <= 57343 THEN <<239, 191, 189>>
    ELSE IF c < 65536
         THEN <<224 + (c \div 4096), 128 + ((c \div 64) % 64),
                128 + (c % 64)>>
    ELSE <<240 + (c \div 262144), 128 + ((c \div 4096) % 64),
           128 + ((c \div 64) % 64), 128 + (c % 64)>>

RECURSIVE EncodeRunes(_)
EncodeRunes(cs) ==
    IF Len(cs) = 0 THEN <<>>
    ELSE EncodeRune(Head(cs)) \o EncodeRunes(Tail(cs))

(***************************************************************************)
(* Position (package position)                                             *)
(***************************************************************************)
\* position.New
NewPosition == [runesPerLine |-> <<>>, bytesPerLine |-> <<>>, offset |-> 0]

\* Position.line
PosLine(p) == IF Len(p.runesPerLine) < 1 THEN 1 ELSE Len(p.runesPerLine)

\* Position.column
PosColumn(p) ==
    IF Len(p.runesPerLine) = 0 THEN 0
    ELSE p.runesPerLine[Len(p.runesPerLine)]

\* Position.Offset
PosOffset(p) == p.offset

\* reset as it would be if it emptied the line records and kept the offset.
PosResetKeepOffset(p) ==
    [runesPerLine |-> <<>>, bytesPerLine |-> <<>>, offset |-> p.offset]

\* Position.reset
PosReset(p) == [runesPerLine |-> <<>>, bytesPerLine |-> <<>>, offset |-> 0]

\* Position.Copy
PosCopy(p) == [runesPerLine |-> p.runesPerLine,
               bytesPerLine |-> p.bytesPerLine,
               offset |-> p.offset]

\* The loop of Position.Scan over the not yet scanned rest of its argument.
RECURSIVE ScanLoop(_, _)
ScanLoop(p, in) ==
    IF Len(in) = 0 THEN p
    ELSE LET d == DecodeRune(in)
             zl == Len(p.runesPerLine)
             q == IF d.rune = newLine
                  THEN [runesPerLine |-> Append(p.runesPerLine, 0),
                        bytesPerLine |-> Append(p.bytesPerLine, 0),
                        offset |-> p.offset + d.size]
                  ELSE [runesPerLine |->
                            [p.runesPerLine EXCEPT ![zl] = @ + 1],
                        bytesPerLine |->
                            [p.bytesPerLine EXCEPT ![zl] = @ + d.size],
                        offset |-> p.offset + d.size]
         IN  ScanLoop(q, Slice(in, d.size, Len(in)))

\* Position.Scan
PosScan(p, in) ==
    LET p0 == IF Len(p.runesPerLine) = 0
              THEN [p EXCEPT !.runesPerLine = <<0>>, !.bytesPerLine = <<0>>]
              ELSE p
    IN  ScanLoop(p0, in)

\* The first loop of Position.Rewind: pops whole line records while the
\* bytes still to rewind exceed the last record's byte count.
RECURSIVE RewindLoop(_, _, _, _, _)
RewindLoop(p, bytes, bytesRewound, runesRewound, lastLine) ==
    IF bytesRewound < bytes /\ lastLine >= 1
    THEN IF bytes - bytesRewound <= p.bytesPerLine[lastLine]
         THEN [bytesRewound |-> bytesRewound, runesRewound |-> runesRewound,
               lastLine |-> lastLine]
         ELSE LET nl == IF lastLine - 1 >= 1 THEN 1 ELSE 0
              IN  RewindLoop(p, bytes,
                             bytesRewound + p.bytesPerLine[lastLine] + nl,
                             runesRewound + p.runesPerLine[lastLine] + nl,
                             lastLine - 1)
    ELSE [bytesRewound |-> bytesRewound, runesRewound |-> runesRewound,
          lastLine |-> lastLine]

\* Rewind as it would be if it kept the line records it has gone back over.
PosRewindKeepLines(p, bytes, runes) ==
    IF bytes = 0 /\ runes = 0 THEN [pos |-> p, err |-> FALSE]
    ELSE IF bytes < 0 \/ runes < 0 THEN [pos |-> p, err |-> TRUE]
    ELSE IF bytes > p.offset THEN [pos |-> p, err |-> TRUE]
    ELSE IF bytes = p.offset THEN [pos |-> PosReset(p), err |-> FALSE]
    ELSE LET l == RewindLoop(p, bytes, 0, 0, Len(p.bytesPerLine))
             remainingBytes == bytes - l.bytesRewound
             remainingRunes == runes - l.runesRewound
         IN  IF l.lastLine >= 1
                /\ p.bytesPerLine[l.lastLine] >= remainingBytes
             THEN [pos |->
                     [runesPerLine |->
                        [p.runesPerLine EXCEPT
                           ![l.lastLine] = @ - remainingRunes],
                      bytesPerLine |->
                        [p.bytesPerLine EXCEPT
                           ![l.lastLine] = @ - remainingBytes],
                      offset |-> p.offset - bytes],
                   err |-> FALSE]
             ELSE [pos |-> p, err |-> TRUE]

\* Rewind as it would be if it clamped a byte count beyond the offset to the
\* offset.
PosRewindClamp(p, bytes, runes) ==
    IF bytes = 0 /\ runes = 0 THEN [pos |-> p, err |-> FALSE]
    ELSE IF bytes < 0 \/ runes < 0 THEN [pos |-> p, err |-> TRUE]
    ELSE IF bytes >= p.offset THEN [pos |-> PosReset(p), err |-> FALSE]
    ELSE LET l == RewindLoop(p, bytes, 0, 0, Len(p.bytesPerLine))
             remainingBytes == bytes - l.bytesRewound
             remainingRunes == runes - l.runesRewound
         IN  IF l.lastLine >= 1
                /\ p.bytesPerLine[l.lastLine] >= remainingBytes
             THEN [pos |->
                     [runesPerLine |->
                        SubSeq([p.runesPerLine EXCEPT
                                  ![l.lastLine] = @ - remainingRunes],
                               1, l.lastLine),
                      bytesPerLine |->
                        SubSeq([p.bytesPerLine EXCEPT
                                  ![l.lastLine] = @ - remainingBytes],
                               1, l.lastLine),
                      offset |-> p.offset - bytes],
                   err |-> FALSE]
             ELSE [pos |-> p, err |-> TRUE]

\* Position.Rewind: the position afterwards and whether an error is returned.
\* Line records are numbered from 1 here, from 0 in the source.
PosRewind(p, bytes, runes) ==
    IF bytes = 0 /\ runes = 0 THEN [pos |-> p, err |-> FALSE]
    ELSE IF bytes < 0 \/ runes < 0 THEN [pos |-> p, err |-> TRUE]
    ELSE IF bytes > p.offset THEN [pos |-> p, err |-> TRUE]
    ELSE IF bytes = p.offset THEN [pos |-> PosReset(p), err |-> FALSE]
    ELSE LET l == RewindLoop(p, bytes, 0, 0, Len(p.bytesPerLine))
             remainingBytes == bytes - l.bytesRewound
             remainingRunes == runes - l.runesRewound
         IN  IF l.lastLine >= 1
                /\ p.bytesPerLine[l.lastLine] >= remainingBytes
             THEN [pos |->
                     [runesPerLine |->
                        SubSeq([p.runesPerLine EXCEPT
                                  ![l.lastLine] = @ - remainingRunes],
                               1, l.lastLine),
                      bytesPerLine |->
                        SubSeq([p.bytesPerLine EXCEPT
                                  ![l.lastLine] = @ - remainingBytes],
                               1, l.lastLine),
                      offset |-> p.offset - bytes],
                   err |-> FALSE]
             ELSE [pos |-> p, err |-> TRUE]

(***************************************************************************)
(* The byte source (io.Reader).  A behaviour says how the source answers   *)
(* the read calls of one operation: each call delivers at most chunk       *)
(* bytes (one byte, or all that fits); with a fault, the calls after the   *)
(* first good ones deliver nothing and return no error ("stall") or an     *)
(* I/O error ("ioerr").                                                    *)
(***************************************************************************)
Behaviours ==
    { [chunk |-> 1, fault |-> "none", good |-> 0],
      [chunk |-> MaxLen + MaxRead, fault |-> "none", good |-> 0],
      [chunk |-> 1, fault |-> "stall", good |-> 1],
      [chunk |-> 1, fault |-> "ioerr", good |-> 0] }

\* Behaviours of a source that works: it delivers data until end of stream.
NoFault == {beh \in Behaviours : beh.fault = "none"}

\* One call br.Read(p) with len(p) = space, the source having delivered
\* srcPos bytes; reads counts the calls this operation made before.
SrcRead(srcPos, space, beh, reads) ==
    LET remaining == Len(input) - srcPos
    IN  IF beh.fault # "none" /\ reads >= beh.good
        THEN [n |-> 0,
              err |-> IF beh.fault = "stall" THEN "nil" ELSE "ErrIO"]
        ELSE IF remaining = 0 THEN [n |-> 0, err |-> "EOF"]
        ELSE [n |-> Min(beh.chunk, Min(space, remaining)), err |-> "nil"]

(***************************************************************************)
(* TextReader.  A reader value t is the record of its fields, together     *)
(* with the source's position src and the number of source reads of the    *)
(* current operation.                                                      *)
(***************************************************************************)
Reader == [src |-> src, buf |-> buf, r |-> r, w |-> w,
           lastRuneSize |-> lastRuneSize, lastByte |-> lastByte,
           pos |-> [runesPerLine |-> runesPerLine,
                    bytesPerLine |-> bytesPerLine,
                    offset |-> offset],
           reads |-> 0]

\* NewWithCapacity as it would be if it took the capacity it is given.
ClampCapacityNone(c) == c

\* NewWithCapacity: the capacity is clamped upward to utf8.UTFMax.
ClampCapacity(c) == IF c < UTFMax THEN UTFMax ELSE c

\* NewWithCapacity: the fields of a fresh reader.
NewReader(c) ==
    [src |-> 0, buf |-> [i \in 1..ClampCapacity(c) |-> 0], r |-> 0, w |-> 0,
     lastRuneSize |-> -1, lastByte |-> -1, pos |-> NewPosition, reads |-> 0]

\* Compact as it would be without the copy: only the cursors move.
CompactNoCopy(t) == [t EXCEPT !.w = t.w - t.r, !.r = 0]

\* Compact as it would be if only the read cursor were reset: the write
\* cursor stays where it was.
CompactKeepW(t) ==
    [t EXCEPT !.buf = [i \in 1..Len(t.buf) |->
                         IF i <= t.w - t.r THEN t.buf[t.r + i] ELSE t.buf[i]],
              !.r = 0]

\* copy(t.buf[0:], t.buf[t.r:t.w]) and the cursor update of fillAtLeast.
Compact(t) ==
    [t EXCEPT !.buf = [i \in 1..Len(t.buf) |->
                         IF i <= t.w - t.r THEN t.buf[t.r + i] ELSE t.buf[i]],
              !.w = t.w - t.r,
              !.r = 0]

\* The read loop of fillAtLeast.
RECURSIVE FillLoop(_, _, _, _)
FillLoop(t, n, beh, readErr) ==
    IF t.w - t.r < n /\ readErr = "nil"
    THEN LET rd == SrcRead(t.src, capacity - t.w, beh, t.reads)
             t2 == [t EXCEPT
                      !.buf = [i \in 1..Len(t.buf) |->
                                 IF i > t.w /\ i <= t.w + rd.n
                                 THEN input[t.src + (i - t.w)]
                                 ELSE t.buf[i]],
                      !.w = t.w + rd.n,
                      !.src = t.src + rd.n,
                      !.reads = t.reads + 1]
             e == IF rd.n = 0 /\ rd.err = "nil" THEN "ErrNoProgress"
                  ELSE rd.err
         IN  FillLoop(t2, n, beh, e)
    ELSE [t |-> t, readErr |-> readErr]

\* fillAtLeast as it would be without the test for enough buffered data.
fillAtLeastNoShortcut(t, n, beh) ==
    IF n < 0 THEN [t |-> t, ok |-> FALSE, err |-> "ErrInvalidSize"]
    ELSE IF n = 0 THEN [t |-> t, ok |-> TRUE, err |-> "nil"]
    ELSE IF n > capacity
         THEN [t |-> t, ok |-> FALSE, err |-> "ErrBufferTooSmall"]
    ELSE LET t1 == IF t.r + n >= capacity THEN Compact(t) ELSE t
             l == FillLoop(t1, n, beh, "nil")
         IN  IF l.readErr = "nil"
             THEN [t |-> l.t, ok |-> TRUE, err |-> "nil"]
             ELSE [t |-> l.t, ok |-> l.t.w - l.t.r >= n, err |-> l.readErr]

\* TextReader.fillAtLeast
fillAtLeast(t, n, beh) ==
    IF n < 0 THEN [t |-> t, ok |-> FALSE, err |-> "ErrInvalidSize"]
    ELSE IF n = 0 THEN [t |-> t, ok |-> TRUE, err |-> "nil"]
    ELSE IF n > capacity
         THEN [t |-> t, ok |-> FALSE, err |-> "ErrBufferTooSmall"]
    ELSE IF n <= t.w - t.r THEN [t |-> t, ok |-> TRUE, err |-> "nil"]
    ELSE LET t1 == IF t.r + n >= capacity THEN Compact(t) ELSE t
             l == FillLoop(t1, n, beh, "nil")
         IN  IF l.readErr = "nil"
             THEN [t |-> l.t, ok |-> TRUE, err |-> "nil"]
             ELSE [t |-> l.t, ok |-> l.t.w - l.t.r >= n, err |-> l.readErr]

\* What a call returns: the reader afterwards, the error ("nil" for none),
\* the value (rune, byte or offset), the count (size or n) and the bytes
\* stored into the caller's span; reads is the number of source reads the
\* call made (the reader's own count starts again at 0 for the next call).
Result(t, err, val, n, data) ==
    [t |-> [t EXCEPT !.reads = 0], err |-> err, val |-> val, n |-> n,
     data |-> data, reads |-> t.reads]

\* ReadRune as it would be if it refused an invalid encoding with
\* ErrInvalidUTF8 and consumed nothing.
ReadRuneStrict(t, beh) ==
    LET f == fillAtLeast(t, UTFMax, beh)
        u == f.t
    IN  IF f.err # "nil" /\ f.err # "EOF" THEN Result(u, f.err, 0, 0, <<>>)
        ELSE IF u.r >= u.w THEN Result(u, "EOF", 0, 0, <<>>)
        ELSE LET d == DecodeRune(Slice(u.buf, u.r, u.w))
             IN  IF d.rune = RuneError /\ d.size = 1
                 THEN Result(u, "ErrInvalidUTF8", 0, 0, <<>>)
                 ELSE Result([u EXCEPT
                                !.pos = PosScan(u.pos,
                                           Slice(u.buf, u.r, u.r + d.size)),
                                !.r = u.r + d.size,
                                !.lastRuneSize = d.size,
                                !.lastByte = -1],
                             "nil", d.rune, d.size, <<>>)

\* ReadRune as it would be if an invalid encoding were reported without
\* being consumed.
ReadRuneNoAdvance(t, beh) ==
    LET f == fillAtLeast(t, UTFMax, beh)
        u == f.t
    IN  IF f.err # "nil" /\ f.err # "EOF" THEN Result(u, f.err, 0, 0, <<>>)
        ELSE IF u.r >= u.w THEN Result(u, "EOF", 0, 0, <<>>)
        ELSE LET d == DecodeRune(Slice(u.buf, u.r, u.w))
                 size == IF d.rune = RuneError /\ d.size = 1 THEN 0
                         ELSE d.size
             IN  Result([u EXCEPT
                           !.pos = PosScan(u.pos,
                                           Slice(u.buf, u.r, u.r + size)),
                           !.r = u.r + size,
                           !.lastRuneSize = size,
                           !.lastByte = -1],
                        "nil", d.rune, d.size, <<>>)

\* TextReader.ReadRune
ReadRuneOp(t, beh) ==
    LET f == fillAtLeast(t, UTFMax, beh)
        u == f.t
    IN  IF f.err # "nil" /\ f.err # "EOF" THEN Result(u, f.err, 0, 0, <<>>)
        ELSE IF u.r >= u.w THEN Result(u, "EOF", 0, 0, <<>>)
        ELSE LET d == DecodeRune(Slice(u.buf, u.r, u.w))
             IN  Result([u EXCEPT
                           !.pos = PosScan(u.pos,
                                           Slice(u.buf, u.r, u.r + d.size)),
                           !.r = u.r + d.size,
                           !.lastRuneSize = d.size,
                           !.lastByte = -1],
                        "nil", d.rune, d.size, <<>>)

\* UnreadRune as it would be if it rewound the position by one byte, whatever
\* the size of the rune.
UnreadRuneOneByte(t) ==
    IF t.lastRuneSize < 0 \/ t.r < t.lastRuneSize
    THEN Result(t, "ErrInvalidUnreadRune", 0, 0, <<>>)
    ELSE LET rw == PosRewind(t.pos, 1, 1)
         IN  IF rw.err THEN Result(t, "ErrRewind", 0, 0, <<>>)
             ELSE Result([t EXCEPT !.pos = rw.pos,
                                   !.r = t.r - t.lastRuneSize,
                                   !.lastRuneSize = -1,
                                   !.lastByte = -1],
                         "nil", 0, 0, <<>>)

\* UnreadRune as it would be without the test of the read cursor against the
\* size of the rune.
UnreadRuneNoCursorTest(t) ==
    IF t.lastRuneSize < 0
    THEN Result(t, "ErrInvalidUnreadRune", 0, 0, <<>>)
    ELSE LET rw == PosRewind(t.pos, t.lastRuneSize, 1)
         IN  IF rw.err THEN Result(t, "ErrRewind", 0, 0, <<>>)
             ELSE Result([t EXCEPT !.pos = rw.pos,
                                   !.r = t.r - t.lastRuneSize,
                                   !.lastRuneSize = -1,
                                   !.lastByte = -1],
                         "nil", 0, 0, <<>>)

\* TextReader.UnreadRune
UnreadRuneOp(t) ==
    IF t.lastRuneSize < 0 \/ t.r < t.lastRuneSize
    THEN Result(t, "ErrInvalidUnreadRune", 0, 0, <<>>)
    ELSE LET rw == PosRewind(t.pos, t.lastRuneSize, 1)
         IN  IF rw.err THEN Result(t, "ErrRewind", 0, 0, <<>>)
             ELSE Result([t EXCEPT !.pos = rw.pos,
                                   !.r = t.r - t.lastRuneSize,
                                   !.lastRuneSize = -1,
                                   !.lastByte = -1],
                         "nil", 0, 0, <<>>)

\* ReadByte as it would be if, with no byte left, it returned a zero byte and
\* no error.
ReadByteOpPastEnd(t, beh) ==
    LET f == fillAtLeast(t, 1, beh)
        u == f.t
    IN  IF f.err # "nil" /\ f.err # "EOF" THEN Result(u, f.err, 0, 0, <<>>)
        ELSE IF u.r >= u.w THEN Result(u, "nil", 0, 1, <<>>)
        ELSE LET b == u.buf[u.r + 1]
             IN  Result([u EXCEPT
                           !.pos = PosScan(u.pos, Slice(u.buf, u.r, u.r + 1)),
                           !.r = u.r + 1,
                           !.lastRuneSize = -1,
                           !.lastByte = b],
                        "nil", b, 1, <<>>)

\* ReadByte as it would be if it left the rune marker as it was.
ReadByteKeepRuneMarker(t, beh) ==
    LET f == fillAtLeast(t, 1, beh)
        u == f.t
    IN  IF f.err # "nil" /\ f.err # "EOF" THEN Result(u, f.err, 0, 0, <<>>)
        ELSE IF u.r >= u.w THEN Result(u, "EOF", 0, 0, <<>>)
        ELSE LET b == u.buf[u.r + 1]
             IN  Result([u EXCEPT
                           !.pos = PosScan(u.pos, Slice(u.buf, u.r, u.r + 1)),
                           !.r = u.r + 1,
                           !.lastByte = b],
                        "nil", b, 1, <<>>)

\* TextReader.ReadByte
ReadByteOp(t, beh) ==
    LET f == fillAtLeast(t, 1, beh)
        u == f.t
    IN  IF f.err # "nil" /\ f.err # "EOF" THEN Result(u, f.err, 0, 0, <<>>)
        ELSE IF u.r >= u.w THEN Result(u, "EOF", 0, 0, <<>>)
        ELSE LET b == u.buf[u.r + 1]
             IN  Result([u EXCEPT
                           !.pos = PosScan(u.pos, Slice(u.buf, u.r, u.r + 1)),
                           !.r = u.r + 1,
                           !.lastRuneSize = -1,
                           !.lastByte = b],
                        "nil", b, 1, <<>>)

\* UnreadByte as it would be without the rewind of the position.
UnreadByteNoRewind(t) ==
    IF t.lastByte < 0 \/ t.r = 0
    THEN Result(t, "ErrInvalidUnreadByte", 0, 0, <<>>)
    ELSE Result([t EXCEPT !.r = t.r - 1,
                          !.lastByte = -1,
                          !.lastRuneSize = -1],
                "nil", 0, 0, <<>>)

\* UnreadByte as it would be if it left the byte marker set.
UnreadByteKeepMarker(t) ==
    IF t.lastByte < 0 \/ t.r = 0
    THEN Result(t, "ErrInvalidUnreadByte", 0, 0, <<>>)
    ELSE LET rw == PosRewind(t.pos, 1, 1)
         IN  IF rw.err THEN Result(t, "ErrRewind", 0, 0, <<>>)
             ELSE Result([t EXCEPT !.pos = rw.pos,
                                   !.r = t.r - 1,
                                   !.lastRuneSize = -1],
                         "nil", 0, 0, <<>>)

\* TextReader.UnreadByte
UnreadByteOp(t) ==
    IF t.lastByte < 0 \/ t.r = 0
    THEN Result(t, "ErrInvalidUnreadByte", 0, 0, <<>>)
    ELSE LET rw == PosRewind(t.pos, 1, 1)
         IN  IF rw.err THEN Result(t, "ErrRewind", 0, 0, <<>>)
             ELSE Result([t EXCEPT !.pos = rw.pos,
                                   !.r = t.r - 1,
                                   !.lastByte = -1,
                                   !.lastRuneSize = -1],
                         "nil", 0, 0, <<>>)

\* The loop of Read as it would be if the direct read left the buffer and
\* its cursors as they were.
RECURSIVE ReadLoopKeepBuffer(_, _, _, _, _)
ReadLoopKeepBuffer(t, needed, p, readErr, beh) ==
    IF Len(p) < needed
    THEN LET buffered == t.w - t.r
             n == Min(needed - Len(p), buffered)
             t1 == IF buffered > 0
                   THEN [t EXCEPT
                           !.pos = PosScan(t.pos, Slice(t.buf, t.r, t.r + n)),
                           !.r = t.r + n]
                   ELSE t
             p1 == IF buffered > 0
                   THEN p \o Slice(t.buf, t.r, t.r + n)
                   ELSE p
         IN  IF readErr # "nil" THEN [t |-> t1, p |-> p1, readErr |-> readErr]
             ELSE IF needed - Len(p1) > capacity
             THEN LET rd == SrcRead(t1.src, needed - Len(p1), beh, t1.reads)
                      got == Slice(input, t1.src, t1.src + rd.n)
                  IN  [t |-> [t1 EXCEPT !.pos = PosScan(t1.pos, got),
                                        !.src = t1.src + rd.n,
                                        !.reads = t1.reads + 1,
                                        !.lastRuneSize = -1,
                                        !.lastByte = -1],
                       p |-> p1 \o got,
                       readErr |-> rd.err]
             ELSE LET f == fillAtLeast(t1, needed - Len(p1), beh)
                  IN  ReadLoopKeepBuffer(f.t, needed, p1, f.err, beh)
    ELSE [t |-> t, p |-> p, readErr |-> readErr]

\* The loop of TextReader.Read; p is the part of the caller's span filled
\* so far (filled = Len(p)).
RECURSIVE ReadLoop(_, _, _, _, _)
ReadLoop(t, needed, p, readErr, beh) ==
    IF Len(p) < needed
    THEN LET buffered == t.w - t.r
             n == Min(needed - Len(p), buffered)
             \* drain what the buffer holds
             t1 == IF buffered > 0
                   THEN [t EXCEPT
                           !.pos = PosScan(t.pos, Slice(t.buf, t.r, t.r + n)),
                           !.r = t.r + n]
                   ELSE t
             p1 == IF buffered > 0
                   THEN p \o Slice(t.buf, t.r, t.r + n)
                   ELSE p
         IN  IF readErr # "nil" THEN [t |-> t1, p |-> p1, readErr |-> readErr]
             ELSE IF needed - Len(p1) > capacity
             THEN \* read the rest directly into the caller's span
                  LET rd == SrcRead(t1.src, needed - Len(p1), beh, t1.reads)
                      got == Slice(input, t1.src, t1.src + rd.n)
                  IN  [t |-> [t1 EXCEPT !.pos = PosScan(t1.pos, got),
                                        !.src = t1.src + rd.n,
                                        !.reads = t1.reads + 1,
                                        !.r = 0,
                                        !.w = 0,
                                        !.lastRuneSize = -1,
                                        !.lastByte = -1],
                       p |-> p1 \o got,
                       readErr |-> rd.err]
             ELSE LET f == fillAtLeast(t1, needed - Len(p1), beh)
                  IN  ReadLoop(f.t, needed, p1, f.err, beh)
    ELSE [t |-> t, p |-> p, readErr |-> readErr]

\* Read as it would be if it returned the source's error together with the
\* bytes it produced.
ReadOpPassErr(t, needed, beh) ==
    LET l == ReadLoop(t, needed, <<>>, "nil", beh)
        u == [l.t EXCEPT !.lastRuneSize = -1,
                         !.lastByte = IF l.t.r > 0 THEN l.t.buf[l.t.r]
                                      ELSE -1]
        filled == Len(l.p)
    IN  Result(u, l.readErr, 0, filled, l.p)

\* TextReader.Read with len(p) = needed
ReadOp(t, needed, beh) ==
    LET l == ReadLoop(t, needed, <<>>, "nil", beh)
        u == [l.t EXCEPT !.lastRuneSize = -1,
                         !.lastByte = IF l.t.r > 0 THEN l.t.buf[l.t.r]
                                      ELSE -1]
        filled == Len(l.p)
    IN  IF filled = 0 /\ l.readErr # "nil"
        THEN Result(u, l.readErr, 0, 0, <<>>)
        ELSE Result(u, "nil", 0, filled, l.p)

\* The switch on whence as it would be if io.SeekStart took the offset for
\* an index into the buffer.
SeekNewRNoWindow(t, off, whence) ==
    IF whence = SeekStart THEN off
    ELSE IF whence = SeekCurrent THEN t.r + off
    ELSE t.w + off

\* The switch on whence as it would be if io.SeekEnd were relative to the
\* read cursor, like io.SeekCurrent.
SeekNewREndAsCurrent(t, off, whence) ==
    IF whence = SeekStart THEN off - (PosOffset(t.pos) - t.r)
    ELSE t.r + off

\* TextReader.Seek, the switch on whence: the new read cursor, relative to
\* the start of the buffer.
SeekNewR(t, off, whence) ==
    IF whence = SeekStart THEN off - (PosOffset(t.pos) - t.r)
    ELSE IF whence = SeekCurrent THEN t.r + off
    ELSE t.w + off

\* Seeking forward as it would be if a seek past the buffered data consumed
\* what is buffered before it failed.
SeekForwardPartial(t, rel, beh) ==
    IF rel > capacity
    THEN Result(t, "ErrSeekOutOfBuffer", 0, 0, <<>>)
    ELSE LET f == IF rel > t.w - t.r THEN fillAtLeast(t, rel, beh)
                  ELSE [t |-> t, ok |-> TRUE, err |-> "nil"]
             u == f.t
             n == Min(rel, u.w - u.r)
             v == [u EXCEPT
                     !.pos = PosScan(u.pos, Slice(u.buf, u.r, u.r + n)),
                     !.r = u.r + n,
                     !.lastRuneSize = -1,
                     !.lastByte = -1]
         IN  IF f.err # "nil" /\ f.err # "EOF"
             THEN Result(u, f.err, 0, 0, <<>>)
             ELSE IF u.r + rel > u.w
             THEN Result(v, "ErrSeekOutOfBuffer", 0, 0, <<>>)
             ELSE Result(v, "nil", PosOffset(v.pos), 0, <<>>)

\* Seeking forward as it would be if it passed on every error of
\* fillAtLeast, the end of the stream included.
SeekForwardPassEOF(t, rel, beh) ==
    IF rel > capacity
    THEN Result(t, "ErrSeekOutOfBuffer", 0, 0, <<>>)
    ELSE LET f == IF rel > t.w - t.r THEN fillAtLeast(t, rel, beh)
                  ELSE [t |-> t, ok |-> TRUE, err |-> "nil"]
             u == f.t
         IN  IF f.err # "nil"
             THEN Result(u, f.err, 0, 0, <<>>)
             ELSE LET v == [u EXCEPT
                              !.pos = PosScan(u.pos,
                                              Slice(u.buf, u.r, u.r + rel)),
                              !.r = u.r + rel,
                              !.lastRuneSize = -1,
                              !.lastByte = -1]
                  IN  Result(v, "nil", PosOffset(v.pos), 0, <<>>)

\* TextReader.Seek, seeking forward by rel > 0 bytes.
SeekForward(t, rel, beh) ==
    IF rel > capacity
    THEN Result(t, "ErrSeekOutOfBuffer", 0, 0, <<>>)
    ELSE LET f == IF rel > t.w - t.r THEN fillAtLeast(t, rel, beh)
                  ELSE [t |-> t, ok |-> TRUE, err |-> "nil"]
             u == f.t
         IN  IF f.err # "nil" /\ f.err # "EOF"
             THEN Result(u, f.err, 0, 0, <<>>)
             ELSE IF u.r + rel > u.w
             THEN Result(u, "ErrSeekOutOfBuffer", 0, 0, <<>>)
             ELSE LET v == [u EXCEPT
                              !.pos = PosScan(u.pos,
                                              Slice(u.buf, u.r, u.r + rel)),
                              !.r = u.r + rel,
                              !.lastRuneSize = -1,
                              !.lastByte = -1]
                  IN  Result(v, "nil", PosOffset(v.pos), 0, <<>>)

\* Seeking backward as it would be if it left the undo markers set.
SeekBackwardKeepMarkers(t, newR, rel) ==
    IF newR < 0 THEN Result(t, "ErrSeekOutOfBuffer", 0, 0, <<>>)
    ELSE LET runeCount == RuneCount(Slice(t.buf, newR, t.r))
             rw == PosRewind(t.pos, -rel, runeCount)
         IN  IF rw.err THEN Result(t, "ErrRewind", 0, 0, <<>>)
             ELSE LET v == [t EXCEPT !.pos = rw.pos, !.r = t.r + rel]
                  IN  Result(v, "nil", PosOffset(v.pos), 0, <<>>)

\* TextReader.Seek, seeking backward by -rel > 0 bytes to buffer index newR.
SeekBackward(t, newR, rel) ==
    IF newR < 0 THEN Result(t, "ErrSeekOutOfBuffer", 0, 0, <<>>)
    ELSE LET runeCount == RuneCount(Slice(t.buf, newR, t.r))
             rw == PosRewind(t.pos, -rel, runeCount)
         IN  IF rw.err THEN Result(t, "ErrRewind", 0, 0, <<>>)
             ELSE LET v == [t EXCEPT !.pos = rw.pos,
                                     !.r = t.r + rel,
                                     !.lastRuneSize = -1,
                                     !.lastByte = -1]
                  IN  Result(v, "nil", PosOffset(v.pos), 0, <<>>)

\* Seek as it would be without the test of an io.SeekStart target against
\* the start of the buffered window.
SeekOpNoWindowTest(t, off, whence, beh) ==
    LET newR == SeekNewR(t, off, whence)
        rel == newR - t.r
    IN  IF whence \notin {SeekStart, SeekCurrent, SeekEnd}
        THEN Result(t, "ErrInvalidWhence", 0, 0, <<>>)
        ELSE IF whence = SeekStart /\ off < 0
        THEN Result(t, "ErrNegativePosition", 0, 0, <<>>)
        ELSE IF newR < 0
        THEN Result(t, "ErrNegativePosition", 0, 0, <<>>)
        ELSE IF rel = 0
        THEN Result(t, "nil", PosOffset(t.pos), 0, <<>>)
        ELSE IF newR > capacity
        THEN Result(t, "ErrSeekOutOfBuffer", 0, 0, <<>>)
        ELSE IF rel > 0 THEN SeekForward(t, rel, beh)
        ELSE SeekBackward(t, newR, rel)

\* Seek as it would be without the test for a negative new read cursor.
SeekOpNoNegativeTest(t, off, whence, beh) ==
    LET newR == SeekNewR(t, off, whence)
        rel == newR - t.r
    IN  IF whence \notin {SeekStart, SeekCurrent, SeekEnd}
        THEN Result(t, "ErrInvalidWhence", 0, 0, <<>>)
        ELSE IF whence = SeekStart /\ off < 0
        THEN Result(t, "ErrNegativePosition", 0, 0, <<>>)
        ELSE IF whence = SeekStart /\ off < PosOffset(t.pos) - t.r
        THEN Result(t, "ErrSeekOutOfBuffer", 0, 0, <<>>)
        ELSE IF rel = 0
        THEN Result(t, "nil", PosOffset(t.pos), 0, <<>>)
        ELSE IF newR > capacity
        THEN Result(t, "ErrSeekOutOfBuffer", 0, 0, <<>>)
        ELSE IF rel > 0 THEN SeekForward(t, rel, beh)
        ELSE SeekBackward(t, newR, rel)

\* Seek as it would be if it filled the buffer with a byte before it looked
\* at its target.
SeekOpFillFirst(t, off, whence, beh) ==
    LET u == fillAtLeast(t, 1, beh).t
        newR == SeekNewR(u, off, whence)
        rel == newR - u.r
    IN  IF whence \notin {SeekStart, SeekCurrent, SeekEnd}
        THEN Result(u, "ErrInvalidWhence", 0, 0, <<>>)
        ELSE IF whence = SeekStart /\ off < 0
        THEN Result(u, "ErrNegativePosition", 0, 0, <<>>)
        ELSE IF whence = SeekStart /\ off < PosOffset(u.pos) - u.r
        THEN Result(u, "ErrSeekOutOfBuffer", 0, 0, <<>>)
        ELSE IF newR < 0
        THEN Result(u, "ErrNegativePosition", 0, 0, <<>>)
        ELSE IF rel = 0
        THEN Result(u, "nil", PosOffset(u.pos), 0, <<>>)
        ELSE IF newR > capacity
        THEN Result(u, "ErrSeekOutOfBuffer", 0, 0, <<>>)
        ELSE IF rel > 0 THEN SeekForward(u, rel, beh)
        ELSE SeekBackward(u, newR, rel)

\* TextReader.Seek
SeekOp(t, off, whence, beh) ==
    LET newR == SeekNewR(t, off, whence)
        rel == newR - t.r
    IN  IF whence \notin {SeekStart, SeekCurrent, SeekEnd}
        THEN Result(t, "ErrInvalidWhence", 0, 0, <<>>)
        ELSE IF whence = SeekStart /\ off < 0
        THEN Result(t, "ErrNegativePosition", 0, 0, <<>>)
        ELSE IF whence = SeekStart /\ off < PosOffset(t.pos) - t.r
        THEN Result(t, "ErrSeekOutOfBuffer", 0, 0, <<>>)
        ELSE IF newR < 0
        THEN Result(t, "ErrNegativePosition", 0, 0, <<>>)
        ELSE IF rel = 0
        THEN Result(t, "nil", PosOffset(t.pos), 0, <<>>)
        ELSE IF newR > capacity
        THEN Result(t, "ErrSeekOutOfBuffer", 0, 0, <<>>)
        ELSE IF rel > 0 THEN SeekForward(t, rel, beh)
        ELSE SeekBackward(t, newR, rel)

\* TextReader.Pos
Pos(t) == PosCopy(t.pos)

(***************************************************************************)
(* The slices of the buffer the calls read.  A slice t.buf[lo:hi] read     *)
(* while the write cursor is at wc is the triple <<lo, hi, wc>>.           *)
(***************************************************************************)
\* ReadRune: the slices handed to utf8.DecodeRune and to Position.Scan.
ReadRuneSlices(t, beh) ==
    LET f == fillAtLeast(t, UTFMax, beh)
        u == f.t
    IN  IF (f.err # "nil" /\ f.err # "EOF") \/ u.r >= u.w THEN {}
        ELSE LET d == DecodeRune(Slice(u.buf, u.r, u.w))
             IN  {<<u.r, u.w, u.w>>, <<u.r, u.r + d.size, u.w>>}

\* ReadByte: the byte t.buf[t.r], also handed to Position.Scan.
ReadByteSlices(t, beh) ==
    LET f == fillAtLeast(t, 1, beh)
        u == f.t
    IN  IF (f.err # "nil" /\ f.err # "EOF") \/ u.r >= u.w THEN {}
        ELSE {<<u.r, u.r + 1, u.w>>}

\* The loop of Read: the slice copied out of the buffer in each round.
RECURSIVE ReadLoopSlices(_, _, _, _, _)
ReadLoopSlices(t, needed, filled, readErr, beh) ==
    IF filled < needed
    THEN LET buffered == t.w - t.r
             n == Min(needed - filled, buffered)
             here == IF buffered > 0 THEN {<<t.r, t.r + n, t.w>>} ELSE {}
             t1 == IF buffered > 0 THEN [t EXCEPT !.r = t.r + n] ELSE t
             filled1 == IF buffered > 0 THEN filled + n ELSE filled
         IN  IF readErr # "nil" THEN here
             ELSE IF needed - filled1 > capacity THEN here
             ELSE LET f == fillAtLeast(t1, needed - filled1, beh)
                  IN  here \cup ReadLoopSlices(f.t, needed, filled1, f.err, beh)
    ELSE {}

\* Read: the slices of its loop, and the byte t.buf[t.r-1] it takes for the
\* byte marker.
ReadSlices(t, needed, beh) ==
    LET u == ReadLoop(t, needed, <<>>, "nil", beh).t
    IN  ReadLoopSlices(t, needed, 0, "nil", beh)
        \cup (IF u.r > 0 THEN {<<u.r - 1, u.r, u.w>>} ELSE {})

\* Seek: the slice handed to Position.Scan when it goes forward, to
\* utf8.RuneCount when it goes backward.
SeekSlices(t, off, whence, beh) ==
    LET newR == SeekNewR(t, off, whence)
        rel == newR - t.r
    IN  IF \/ SeekOp(t, off, whence, beh).err \in
                 {"ErrInvalidWhence", "ErrNegativePosition"}
           \/ whence = SeekStart /\ off < PosOffset(t.pos) - t.r
           \/ rel = 0
           \/ newR > capacity
        THEN {}
        ELSE IF rel > 0
        THEN LET f == IF rel > t.w - t.r THEN fillAtLeast(t, rel, beh)
                      ELSE [t |-> t, ok |-> TRUE, err |-> "nil"]
                 u == f.t
             IN  IF rel > capacity \/ (f.err # "nil" /\ f.err # "EOF")
                    \/ u.r + rel > u.w
                 THEN {}
                 ELSE {<<u.r, u.r + rel, u.w>>}
        ELSE IF newR < 0 THEN {}
        ELSE {<<newR, t.r, t.w>>}

(***************************************************************************)
(* The sizes the calls ask fillAtLeast for.                                *)
(***************************************************************************)
\* ReadRune: fillAtLeast(utf8.UTFMax)
ReadRuneRequests == {UTFMax}

\* ReadByte: fillAtLeast(1)
ReadByteRequests == {1}

\* The loop of Read: fillAtLeast(needed - filled) in each round that
\* neither ends on an error nor reads directly.
RECURSIVE ReadLoopRequests(_, _, _, _, _)
ReadLoopRequests(t, needed, filled, readErr, beh) ==
    IF filled < needed
    THEN LET buffered == t.w - t.r
             n == Min(needed - filled, buffered)
             t1 == IF buffered > 0 THEN [t EXCEPT !.r = t.r + n] ELSE t
             filled1 == IF buffered > 0 THEN filled + n ELSE filled
         IN  IF readErr # "nil" THEN {}
             ELSE IF needed - filled1 > capacity THEN {}
             ELSE LET f == fillAtLeast(t1, needed - filled1, beh)
                  IN  {needed - filled1}
                      \cup ReadLoopRequests(f.t, needed, filled1, f.err, beh)
    ELSE {}

\* Read
ReadRequests(t, needed, beh) == ReadLoopRequests(t, needed, 0, "nil", beh)

\* Seek: fillAtLeast(relInt) when it goes forward by more than is buffered.
SeekRequests(t, off, whence) ==
    LET newR == SeekNewR(t, off, whence)
        rel == newR - t.r
    IN  IF \/ whence \notin {SeekStart, SeekCurrent, SeekEnd}
           \/ whence = SeekStart /\ off < 0
           \/ whence = SeekStart /\ off < PosOffset(t.pos) - t.r
           \/ newR < 0
           \/ rel = 0
           \/ newR > capacity
           \/ rel < 0
           \/ rel > capacity
           \/ rel <= t.w - t.r
        THEN {}
        ELSE {rel}

(***************************************************************************)
(* Inputs                                                                  *)
(***************************************************************************)
\* newline, 'a', U+00E9 (2 bytes), U+1F984 (4 bytes), a lead byte on its own
Tokens == {<<10>>, <<97>>, <<195, 169>>, <<240, 159, 166, 132>>, <<195>>}

\* All concatenations of tokens that are at most n bytes long.
RECURSIVE Texts(_)
Texts(n) ==
    {<<>>} \cup UNION {{tok \o s : s \in Texts(n - Len(tok))} :
                         tok \in {k \in Tokens : Len(k) <= n}}

Inputs == Texts(MaxLen)

\* utf8.Valid
RECURSIVE ValidUTF8(_)
ValidUTF8(s) ==
    \/ Len(s) = 0
    \/ LET d == DecodeRune(s)
       IN  /\ ~(d.rune = RuneError /\ d.size = 1)
           /\ ValidUTF8(Slice(s, d.size, Len(s)))

(***************************************************************************)
(* State machine                                                           *)
(***************************************************************************)
\* The capacities asked for: one below the minimum (it is clamped), the
\* minimum, where every fill of a whole rune compacts, and a roomy one.
Capacities == {UTFMax - 1, UTFMax, 2 * UTFMax}

\* The concurrent callers: goroutines that share a reader and a Position.
Threads == 1..MaxThreads

\* A caller that is in no call.
Idle == [pc |-> "idle", on |-> "none", op |-> "none", local |-> <<>>]

\* No backing array is allocated.
EmptyHeap == [a \in {} |-> <<>>]

\* No caller is in a call, no lock is held, and there is no snapshot.
NoCallers ==
    /\ mu = [TextReader |-> 0, Position |-> 0]
    /\ threads = [t \in Threads |-> Idle]
    /\ shared = NewPosition
    /\ history = [received |-> <<>>, scanned |-> 0]
    /\ heap = EmptyHeap
    /\ objs = <<>>

\* A fresh reader over one of the given texts.
InitReader(texts) ==
    /\ input \in texts
    /\ \E c \in Capacities :
          LET t == NewReader(c)
          IN  /\ capacity = Len(t.buf)
              /\ src = t.src
              /\ buf = t.buf
              /\ r = t.r
              /\ w = t.w
              /\ lastRuneSize = t.lastRuneSize
              /\ lastByte = t.lastByte
              /\ runesPerLine = t.pos.runesPerLine
              /\ bytesPerLine = t.pos.bytesPerLine
              /\ offset = t.pos.offset
    /\ out = <<>>
    /\ done = "no"
    /\ NoCallers

Init == InitReader(Inputs)

\* The rune counts stay within MaxDrift of what the byte counts allow (a
\* miscounted column can otherwise drift without limit).
Bounded(p) ==
    \A i \in 1..Len(p.runesPerLine) :
        /\ p.runesPerLine[i] >= -MaxDrift
        /\ p.runesPerLine[i] <= p.bytesPerLine[i] + MaxDrift

\* The reader's fields become those of t, the reader some call leaves.
Install(t) ==
    /\ Bounded(t.pos)
    /\ src' = t.src
    /\ buf' = t.buf
    /\ r' = t.r
    /\ w' = t.w
    /\ lastRuneSize' = t.lastRuneSize
    /\ lastByte' = t.lastByte
    /\ runesPerLine' = t.pos.runesPerLine
    /\ bytesPerLine' = t.pos.bytesPerLine
    /\ offset' = t.pos.offset
    /\ UNCHANGED <<input, capacity>>

\* The lengths of the spans handed to Read: the short ones, and one that is
\* longer than the buffer.
ReadLens == (0..MaxRead) \cup {capacity + 1}

\* The seeks tried: every offset with every whence, and one whence outside
\* io.SeekStart..io.SeekEnd (the offset is not looked at then).
SeekArgs ==
    ((-MaxSeek)..MaxSeek) \X {SeekStart, SeekCurrent, SeekEnd}
    \cup {<<0, SeekEnd + 1>>}

\* Each action is one call on the reader, with any argument and any
\* behaviour of the source: the reader becomes what that call leaves.
ReadRune ==
    /\ \E t \in {ReadRuneOp(Reader, beh).t : beh \in Behaviours} : Install(t)
    /\ UNCHANGED <<out, done>>
    /\ UNCHANGED callers

UnreadRune ==
    /\ Install(UnreadRuneOp(Reader).t)
    /\ UNCHANGED <<out, done>>
    /\ UNCHANGED callers

ReadByte ==
    /\ \E t \in {ReadByteOp(Reader, beh).t : beh \in Behaviours} : Install(t)
    /\ UNCHANGED <<out, done>>
    /\ UNCHANGED callers

UnreadByte ==
    /\ Install(UnreadByteOp(Reader).t)
    /\ UNCHANGED <<out, done>>
    /\ UNCHANGED callers

Read ==
    /\ \E t \in {ReadOp(Reader, needed, beh).t :
                   needed \in ReadLens, beh \in Behaviours} : Install(t)
    /\ UNCHANGED <<out, done>>
    /\ UNCHANGED callers

Seek ==
    /\ \E t \in {SeekOp(Reader, a[1], a[2], beh).t :
                   a \in SeekArgs, beh \in Behaviours} : Install(t)
    /\ UNCHANGED <<out, done>>
    /\ UNCHANGED callers

Next ==
    \/ ReadRune
    \/ UnreadRune
    \/ ReadByte
    \/ UnreadByte
    \/ Read
    \/ Seek

Spec == Init /\ [][Next]_vars

(***************************************************************************)
(* A caller that only consumes: any mix of Read, ReadByte and ReadRune,    *)
(* with no unread and no seek.                                             *)
(***************************************************************************)
NextReads ==
    \/ ReadRune
    \/ ReadByte
    \/ Read

SpecReads == Init /\ [][NextReads]_vars

(***************************************************************************)
(* The same calls over inputs longer than the smallest buffer, so that the *)
(* buffer fills up to its capacity and a fill has to compact it.           *)
(***************************************************************************)
\* The texts of MaxLen + 2 bytes that hold the four-byte character.
LongTexts ==
    {text \in Texts(MaxLen + 2) :
        /\ Len(text) = MaxLen + 2
        /\ \E i \in 1..Len(text) : LeadSize(text[i]) = UTFMax}

InitLong == InitReader(LongTexts)

SpecLong == InitLong /\ [][Next]_vars

(***************************************************************************)
(* A caller that reads the whole stream rune by rune (readAllRunes of the  *)
(* tests): it appends every code point ReadRune returns and stops at the   *)
(* first error.                                                            *)
(***************************************************************************)
ReadAllRunesStep ==
    /\ done = "no"
    /\ \E beh \in Behaviours :
          LET res == ReadRuneOp(Reader, beh)
          IN  /\ Install(res.t)
              /\ IF res.err = "nil"
                 THEN out' = Append(out, res.val) /\ done' = done
                 ELSE out' = out /\ done' = res.err
    /\ UNCHANGED callers

\* The loop is cheap to explore, so it is run over longer texts.
InitRunes == InitReader(Texts(MaxLen + 2))

SpecRunes == InitRunes /\ [][ReadAllRunesStep]_vars

(***************************************************************************)
(* The same caller over a source that works: every read it is asked for    *)
(* delivers data until the end of the stream.  The caller builds its       *)
(* reader and then calls ReadRune again as long as it got no error, hence  *)
(* the weak fairness.                                                      *)
(***************************************************************************)
ReadAllRunesGood ==
    /\ done = "no"
    /\ \E beh \in NoFault :
          LET res == ReadRuneOp(Reader, beh)
          IN  /\ Install(res.t)
              /\ IF res.err = "nil"
                 THEN out' = Append(out, res.val) /\ done' = done
                 ELSE out' = out /\ done' = res.err
    /\ UNCHANGED callers

\* Before the caller has built its reader: no input is chosen yet.
InitProgress ==
    /\ input = <<>>
    /\ capacity = UTFMax
    /\ src = 0
    /\ buf = NewReader(UTFMax).buf
    /\ r = 0
    /\ w = 0
    /\ lastRuneSize = -1
    /\ lastByte = -1
    /\ runesPerLine = <<>>
    /\ bytesPerLine = <<>>
    /\ offset = 0
    /\ out = <<>>
    /\ done = "new"
    /\ NoCallers

\* The caller builds a reader of some capacity over some text.
NewRunes ==
    /\ done = "new"
    /\ \E text \in Texts(MaxLen + 2), c \in Capacities :
          LET t == NewReader(c)
          IN  /\ input' = text
              /\ capacity' = Len(t.buf)
              /\ src' = t.src
              /\ buf' = t.buf
              /\ r' = t.r
              /\ w' = t.w
              /\ lastRuneSize' = t.lastRuneSize
              /\ lastByte' = t.lastByte
              /\ runesPerLine' = t.pos.runesPerLine
              /\ bytesPerLine' = t.pos.bytesPerLine
              /\ offset' = t.pos.offset
    /\ out' = <<>>
    /\ done' = "no"
    /\ UNCHANGED callers

NextProgress ==
    \/ NewRunes
    \/ ReadAllRunesGood

\* Weak fairness of the caller, WF_vars(NextProgress), written out: the
\* caller has a step exactly while done is "new" or "no" (building the reader
\* and ReadRune always return, and each changes done or out), so it either
\* ends or keeps taking steps.
LoopFairness ==
    ([]<>(done \notin {"new", "no"})) \/ ([]<><<NextProgress>>_vars)

SpecProgress == InitProgress /\ [][NextProgress]_vars /\ LoopFairness

(***************************************************************************)
(* A Position on its own, as package position offers it: a caller scans    *)
(* spans of bytes, rewinds by any byte and rune counts (the call may        *)
(* fail), resets, and goes on with a copy.  The Position is held in        *)
(* runesPerLine, bytesPerLine and offset; no reader is involved.           *)
(***************************************************************************)
\* The Position under test.
Position == [runesPerLine |-> runesPerLine,
             bytesPerLine |-> bytesPerLine,
             offset |-> offset]

\* The Position becomes p; the reader's own fields are not in use.
InstallPosition(p) ==
    /\ Bounded(p)
    /\ runesPerLine' = p.runesPerLine
    /\ bytesPerLine' = p.bytesPerLine
    /\ offset' = p.offset
    /\ UNCHANGED <<input, capacity, src, buf, r, w, lastRuneSize, lastByte>>

\* The spans handed to Scan, the empty one included.
ScanTexts == Texts(MaxScan)

\* The counts handed to Rewind, a negative one included.
RewindCounts == (-1)..MaxRewind

\* position.New()
InitPosition ==
    /\ input = <<>>
    /\ capacity = UTFMax
    /\ src = 0
    /\ buf = NewReader(UTFMax).buf
    /\ r = 0
    /\ w = 0
    /\ lastRuneSize = -1
    /\ lastByte = -1
    /\ runesPerLine = NewPosition.runesPerLine
    /\ bytesPerLine = NewPosition.bytesPerLine
    /\ offset = NewPosition.offset
    /\ out = <<>>
    /\ done = "no"
    /\ NoCallers

\* Each action is one call on the Position, with any argument.
PositionScan ==
    /\ \E in \in ScanTexts :
          /\ offset + Len(in) <= MaxOffset
          /\ InstallPosition(PosScan(Position, in))
    /\ UNCHANGED <<out, done>>
    /\ UNCHANGED callers

PositionRewind ==
    /\ \E bytes \in RewindCounts, runes \in RewindCounts :
          InstallPosition(PosRewind(Position, bytes, runes).pos)
    /\ UNCHANGED <<out, done>>
    /\ UNCHANGED callers

PositionReset ==
    /\ InstallPosition(PosReset(Position))
    /\ UNCHANGED <<out, done>>
    /\ UNCHANGED callers

\* The caller goes on with the copy.
PositionCopy ==
    /\ InstallPosition(PosCopy(Position))
    /\ UNCHANGED <<out, done>>
    /\ UNCHANGED callers

NextPosition ==
    \/ PositionScan
    \/ PositionRewind
    \/ PositionReset
    \/ PositionCopy

SpecPosition == InitPosition /\ [][NextPosition]_vars

(***************************************************************************)
(* Concurrent callers.  Goroutines share one reader and one Position (a    *)
(* snapshot some Pos() returned) and call ReadByte and Pos on the reader   *)
(* and Scan on the Position.  Every call locks the mutex of its object,    *)
(* reads the fields it works on, writes them back, and unlocks on return   *)
(* (defer); the steps of different callers interleave in any order.        *)
(***************************************************************************)
\* The calls the concurrent callers make.
ConcurrentOps == {"ReadByte", "Pos", "Scan"}

\* The mutex a call locks: TextReader.mu, or the mu of the shared Position.
LockOf(op) == IF op = "Scan" THEN "Position" ELSE "TextReader"

\* The spans the concurrent callers hand to Scan.
SharedSpans == {tok \in Tokens : Len(tok) < MaxLen}

\* Lock as it would be if it returned at once, the mutex held or not.
CanLockAlways(m) == TRUE

\* sync.Mutex.Lock returns once the mutex m is free.
CanLock(m) == mu[m] = 0

\* What a caller that has locked the mutex m works on.
Locked(m) == IF m = "TextReader" THEN Reader ELSE shared

\* The deferred Unlock, and the return of the call.
Unlock(t) ==
    /\ mu' = [mu EXCEPT ![threads[t].on] = 0]
    /\ threads' = [threads EXCEPT ![t] = Idle]

\* A caller enters a call: it returns from Lock holding the mutex.
Lock(t) ==
    /\ threads[t].pc = "idle"
    /\ \E op \in ConcurrentOps :
          /\ CanLock(LockOf(op))
          /\ mu' = [mu EXCEPT ![LockOf(op)] = t]
          /\ threads' = [threads EXCEPT ![t] =
                           [pc |-> "locked", on |-> LockOf(op), op |-> op,
                            local |-> <<>>]]
    /\ UNCHANGED <<input, capacity, src, buf, r, w, lastRuneSize, lastByte,
                   runesPerLine, bytesPerLine, offset, out, done,
                   shared, history, heap, objs>>

\* The call reads the fields of its object.
Load(t) ==
    /\ threads[t].pc = "locked"
    /\ threads' = [threads EXCEPT ![t].pc = "loaded",
                                  ![t].local = Locked(threads[t].on)]
    /\ UNCHANGED <<input, capacity, src, buf, r, w, lastRuneSize, lastByte,
                   runesPerLine, bytesPerLine, offset, out, done,
                   mu, shared, history, heap, objs>>

\* ReadByte writes the fields back and returns its byte.
ReadByteCall(t) ==
    /\ threads[t].pc = "loaded"
    /\ threads[t].op = "ReadByte"
    /\ \E beh \in Behaviours :
          LET res == ReadByteOp(threads[t].local, beh)
          IN  /\ Install(res.t)
              /\ history' = [history EXCEPT !.received =
                               IF res.err = "nil" THEN Append(@, res.val)
                               ELSE @]
    /\ Unlock(t)
    /\ UNCHANGED <<out, done, shared, heap, objs>>

\* Pos returns a copy of the position it read.
PosCall(t) ==
    /\ threads[t].pc = "loaded"
    /\ threads[t].op = "Pos"
    /\ Unlock(t)
    /\ UNCHANGED <<input, capacity, src, buf, r, w, lastRuneSize, lastByte,
                   runesPerLine, bytesPerLine, offset, out, done,
                   shared, history, heap, objs>>

\* Scan writes the fields of the shared Position back.
ScanCall(t) ==
    /\ threads[t].pc = "loaded"
    /\ threads[t].op = "Scan"
    /\ \E in \in SharedSpans :
          /\ history.scanned + Len(in) <= MaxLen
          /\ shared' = PosScan(threads[t].local, in)
          /\ history' = [history EXCEPT !.scanned = @ + Len(in)]
    /\ Unlock(t)
    /\ UNCHANGED <<input, capacity, src, buf, r, w, lastRuneSize, lastByte,
                   runesPerLine, bytesPerLine, offset, out, done, heap, objs>>

NextConcurrent ==
    \E t \in Threads :
        \/ Lock(t)
        \/ Load(t)
        \/ ReadByteCall(t)
        \/ PosCall(t)
        \/ ScanCall(t)

SpecConcurrent == Init /\ [][NextConcurrent]_vars

(***************************************************************************)
(* Position objects and their snapshots.  A Position object holds two      *)
(* slices, each a backing array on the heap and a length, an offset and a  *)
(* mutex.  Object 1 is the reader's Position, which the reader scans,      *)
(* rewinds and copies (Pos); the others are the copies, which their        *)
(* holders scan, rewind, reset and copy.  A write through a slice changes  *)
(* its backing array in place, for every slice that shares the array.      *)
(* Concurrent callers each lock the object they call and run the call.     *)
(***************************************************************************)
\* A slice: its backing array (0 for a nil slice) and its length.
NilSlice == [arr |-> 0, len |-> 0]

\* The elements of the slice s.
SliceVal(h, s) == IF s.len = 0 THEN <<>> ELSE SubSeq(h[s.arr], 1, s.len)

\* cap(s)
SliceCap(h, s) == IF s.arr = 0 THEN 0 ELSE Len(h[s.arr])

\* make: a new backing array of capacity cap holding vals, and a slice of it.
Alloc(h, vals, cap) ==
    LET a == CHOOSE n \in 1..(Cardinality(DOMAIN h) + 1) :
                 /\ n \notin DOMAIN h
                 /\ \A k \in 1..(n - 1) : k \in DOMAIN h
        array == [k \in 1..cap |-> IF k <= Len(vals) THEN vals[k] ELSE 0]
    IN  [heap |-> [n \in DOMAIN h \cup {a} |-> IF n = a THEN array ELSE h[n]],
         slice |-> [arr |-> a, len |-> Len(vals)]]

\* append(s, v): in place when the capacity allows it, into a new array
\* otherwise, as long as the appended slice when s is nil and twice as long
\* as s's array when it is not, which is how the runtime grows a short slice.
AppendSlice(h, s, v) ==
    IF s.len < SliceCap(h, s)
    THEN [heap |-> [h EXCEPT ![s.arr][s.len + 1] = v],
          slice |-> [s EXCEPT !.len = s.len + 1]]
    ELSE Alloc(h, Append(SliceVal(h, s), v),
               IF s.arr = 0 THEN 1 ELSE 2 * SliceCap(h, s))

\* The copy of a slice as it would be if Copy copied the slice header only:
\* the copy shares the backing array.
CopySliceShared(h, s) == [heap |-> h, slice |-> s]

\* append([]int(nil), s...): a nil slice for an empty s, a new array else.
CopySlice(h, s) ==
    IF s.len = 0 THEN [heap |-> h, slice |-> NilSlice]
    ELSE Alloc(h, SliceVal(h, s), s.len)

\* position.New() as an object
NewObject ==
    [runesPerLine |-> NilSlice, bytesPerLine |-> NilSlice, offset |-> 0,
     mu |-> 0]

\* The Position an object holds.
View(h, o) ==
    [runesPerLine |-> SliceVal(h, o.runesPerLine),
     bytesPerLine |-> SliceVal(h, o.bytesPerLine),
     offset |-> o.offset]

\* The loop of Position.Scan on an object.
RECURSIVE ObjScanLoop(_, _, _)
ObjScanLoop(h, o, in) ==
    IF Len(in) = 0 THEN [heap |-> h, obj |-> o]
    ELSE LET d == DecodeRune(in)
             rest == Slice(in, d.size, Len(in))
             zl == o.runesPerLine.len
         IN  IF d.rune = newLine
             THEN LET a1 == AppendSlice(h, o.runesPerLine, 0)
                      a2 == AppendSlice(a1.heap, o.bytesPerLine, 0)
                  IN  ObjScanLoop(a2.heap,
                                  [o EXCEPT !.runesPerLine = a1.slice,
                                            !.bytesPerLine = a2.slice,
                                            !.offset = o.offset + d.size],
                                  rest)
             ELSE ObjScanLoop([h EXCEPT
                                 ![o.runesPerLine.arr][zl] = @ + 1,
                                 ![o.bytesPerLine.arr][zl] = @ + d.size],
                              [o EXCEPT !.offset = o.offset + d.size],
                              rest)

\* Position.Scan on an object
ObjScan(h, o, in) ==
    IF o.runesPerLine.len = 0
    THEN LET a1 == Alloc(h, <<0>>, 1)
             a2 == Alloc(a1.heap, <<0>>, 1)
         IN  ObjScanLoop(a2.heap,
                         [o EXCEPT !.runesPerLine = a1.slice,
                                   !.bytesPerLine = a2.slice],
                         in)
    ELSE ObjScanLoop(h, o, in)

\* Position.reset on an object: the slices are cut to length 0 and keep
\* their arrays.
ObjReset(h, o) ==
    [heap |-> h,
     obj |-> [o EXCEPT !.runesPerLine.len = 0, !.bytesPerLine.len = 0,
                       !.offset = 0]]

\* Position.Rewind on an object
ObjRewind(h, o, bytes, runes) ==
    LET p == View(h, o)
        same == [heap |-> h, obj |-> o]
    IN  IF bytes = 0 /\ runes = 0 THEN same
        ELSE IF bytes < 0 \/ runes < 0 THEN same
        ELSE IF bytes > p.offset THEN same
        ELSE IF bytes = p.offset THEN ObjReset(h, o)
        ELSE LET l == RewindLoop(p, bytes, 0, 0, Len(p.bytesPerLine))
                 remainingBytes == bytes - l.bytesRewound
                 remainingRunes == runes - l.runesRewound
             IN  IF l.lastLine >= 1
                    /\ p.bytesPerLine[l.lastLine] >= remainingBytes
                 THEN [heap |-> [h EXCEPT
                         ![o.bytesPerLine.arr][l.lastLine] =
                              @ - remainingBytes,
                         ![o.runesPerLine.arr][l.lastLine] =
                              @ - remainingRunes],
                       obj |-> [o EXCEPT !.bytesPerLine.len = l.lastLine,
                                         !.runesPerLine.len = l.lastLine,
                                         !.offset = o.offset - bytes]]
                 ELSE same

\* Position.Copy on an object: the new object, with a mutex of its own.
ObjCopy(h, o) ==
    LET c1 == CopySlice(h, o.runesPerLine)
        c2 == CopySlice(c1.heap, o.bytesPerLine)
    IN  [heap |-> c2.heap,
         obj |-> [runesPerLine |-> c1.slice, bytesPerLine |-> c2.slice,
                  offset |-> o.offset, mu |-> 0]]

\* The arrays the objects os refer to, in the order of the objects' fields.
References(os) ==
    [k \in 1..(2 * Len(os)) |->
        IF k % 2 = 1 THEN os[(k + 1) \div 2].runesPerLine.arr
        ELSE os[k \div 2].bytesPerLine.arr]

\* The address of the array a: an address means nothing but which array it
\* is, so the arrays are numbered in the order in which refs names them.
Address(refs, a) ==
    IF a = 0 THEN 0
    ELSE LET first == CHOOSE k \in 1..Len(refs) :
                          /\ refs[k] = a
                          /\ \A j \in 1..(k - 1) : refs[j] # a
         IN  Cardinality({refs[j] : j \in 1..first} \ {0})

\* The elements of the array a that some slice of os reaches.  The others
\* are written (by append) before any slice reaches them.
Reached(os, a) ==
    {k \in 1..(MaxObjOffset + 2) :
        \E i \in 1..Len(os) :
            \/ os[i].runesPerLine.arr = a /\ k <= os[i].runesPerLine.len
            \/ os[i].bytesPerLine.arr = a /\ k <= os[i].bytesPerLine.len}

\* The garbage collector: the arrays no object refers to are gone, and the
\* others are h's, with 0 for the elements no slice reaches.
Collect(h, os) ==
    LET refs == References(os)
        live == {refs[k] : k \in 1..Len(refs)} \ {0}
        addr == [a \in live \cup {0} |-> Address(refs, a)]
        old == [n \in {addr[a] : a \in live} |->
                   CHOOSE a \in live : addr[a] = n]
        reached == [n \in DOMAIN old |-> Reached(os, old[n])]
    IN  [heap |-> [n \in DOMAIN old |->
                     [k \in 1..Len(h[old[n]]) |->
                        IF k \in reached[n] THEN h[old[n]][k] ELSE 0]],
         objs |-> [i \in 1..Len(os) |->
                     [os[i] EXCEPT !.runesPerLine.arr = addr[@],
                                   !.bytesPerLine.arr = addr[@]]]]

\* The spans handed to Scan, of one character of one byte each, and the
\* counts handed to Rewind, as many characters as bytes.
ObjectSpans == {tok \in Tokens : Len(tok) = 1}
ObjectCounts == 0..MaxObjOffset

InitSnapshots ==
    /\ input = <<>>
    /\ capacity = UTFMax
    /\ src = 0
    /\ buf = NewReader(UTFMax).buf
    /\ r = 0
    /\ w = 0
    /\ lastRuneSize = -1
    /\ lastByte = -1
    /\ runesPerLine = NewPosition.runesPerLine
    /\ bytesPerLine = NewPosition.bytesPerLine
    /\ offset = NewPosition.offset
    /\ out = <<>>
    /\ done = "no"
    /\ mu = [TextReader |-> 0, Position |-> 0]
    /\ threads = [t \in Threads |-> Idle]
    /\ shared = NewPosition
    /\ history = [received |-> <<>>, scanned |-> 0]
    /\ heap = EmptyHeap
    /\ objs = <<NewObject>>

\* The call of caller t returns: the object it called becomes o (unlocked
\* by the deferred Unlock), the heap h.
ObjReturn(t, h, o) ==
    LET os == [objs EXCEPT ![threads[t].on] = [o EXCEPT !.mu = 0]]
        gc == Collect(h, os)
    IN  /\ Bounded(View(h, o))
        /\ objs' = gc.objs
        /\ heap' = gc.heap
        /\ threads' = [threads EXCEPT ![t] = Idle]
        /\ UNCHANGED <<input, capacity, src, buf, r, w, lastRuneSize,
                       lastByte, runesPerLine, bytesPerLine, offset, out,
                       done, mu, shared, history>>

\* A caller enters a call on an object: it returns from Lock holding the
\* object's mutex.
ObjectLock(t) ==
    /\ threads[t].pc = "idle"
    /\ \E i \in 1..Len(objs) :
          /\ objs[i].mu = 0
          /\ objs' = [objs EXCEPT ![i].mu = t]
          /\ threads' = [threads EXCEPT ![t] =
                           [pc |-> "locked", on |-> i, op |-> "none",
                            local |-> <<>>]]
    /\ UNCHANGED <<input, capacity, src, buf, r, w, lastRuneSize, lastByte,
                   runesPerLine, bytesPerLine, offset, out, done,
                   mu, shared, history, heap>>

ObjectScan(t) ==
    /\ threads[t].pc = "locked"
    /\ \E in \in ObjectSpans :
          LET o == objs[threads[t].on]
              res == ObjScan(heap, o, in)
          IN  /\ o.offset + Len(in) <= MaxObjOffset
              /\ ObjReturn(t, res.heap, res.obj)

ObjectRewind(t) ==
    /\ threads[t].pc = "locked"
    /\ \E bytes \in ObjectCounts :
          LET res == ObjRewind(heap, objs[threads[t].on], bytes, bytes)
          IN  ObjReturn(t, res.heap, res.obj)

\* Reset is not called by the reader on its own Position.
ObjectReset(t) ==
    /\ threads[t].pc = "locked"
    /\ threads[t].on # 1
    /\ LET res == ObjReset(heap, objs[threads[t].on])
       IN  ObjReturn(t, res.heap, res.obj)

\* Copy (Pos on the reader's Position): there is one more object.
ObjectCopy(t) ==
    /\ threads[t].pc = "locked"
    /\ Len(objs) < MaxObjects
    /\ LET o == objs[threads[t].on]
           res == ObjCopy(heap, o)
           os == Append([objs EXCEPT ![threads[t].on].mu = 0], res.obj)
           gc == Collect(res.heap, os)
       IN  /\ objs' = gc.objs
           /\ heap' = gc.heap
    /\ threads' = [threads EXCEPT ![t] = Idle]
    /\ UNCHANGED <<input, capacity, src, buf, r, w, lastRuneSize, lastByte,
                   runesPerLine, bytesPerLine, offset, out, done,
                   mu, shared, history>>

NextSnapshots ==
    \E t \in Threads :
        \/ ObjectLock(t)
        \/ ObjectScan(t)
        \/ ObjectRewind(t)
        \/ ObjectReset(t)
        \/ ObjectCopy(t)

SpecSnapshots == InitSnapshots /\ [][NextSnapshots]_vars

(***************************************************************************)
(* fillAtLeast, one round of its loop at a time.  A caller enters          *)
(* fillAtLeast(n) from a state that ReadByte and ReadRune calls reach, and *)
(* each step is one round of the loop: one read of the source, which may   *)
(* deliver any number of bytes that fit, with or without an error.         *)
(***************************************************************************)
\* What br.Read may answer for a span of space bytes: some of the bytes
\* that are left, and no error, or an I/O error, or the end of the stream
\* when nothing is left after them.
SourceAnswers(t, space) ==
    {rd \in [n : 0..Min(space, Len(input) - t.src),
             err : {"nil", "EOF", "ErrIO"}] :
        rd.err = "EOF" => t.src + rd.n = Len(input)}

\* One round of the loop as it would be without the test for a read that
\* delivers nothing and returns no error.
FillRoundNoProgressTest(t, rd) ==
    [t |-> [t EXCEPT
              !.buf = [i \in 1..Len(t.buf) |->
                         IF i > t.w /\ i <= t.w + rd.n
                         THEN input[t.src + (i - t.w)]
                         ELSE t.buf[i]],
              !.w = t.w + rd.n,
              !.src = t.src + rd.n,
              !.reads = t.reads + 1],
     readErr |-> rd.err]

\* One round of the loop of fillAtLeast, the source answering rd.
FillRound(t, rd) ==
    [t |-> [t EXCEPT
              !.buf = [i \in 1..Len(t.buf) |->
                         IF i > t.w /\ i <= t.w + rd.n
                         THEN input[t.src + (i - t.w)]
                         ELSE t.buf[i]],
              !.w = t.w + rd.n,
              !.src = t.src + rd.n,
              !.reads = t.reads + 1],
     readErr |-> IF rd.n = 0 /\ rd.err = "nil" THEN "ErrNoProgress"
                 ELSE rd.err]

\* The local variables of a caller inside fillAtLeast(n): the error of the
\* last read, the length of the span handed to it, and how many reads there
\* were, and how many of them delivered bytes.
FillLocals(n) ==
    [n |-> n, readErr |-> "nil", space |-> -1, reads |-> 0, dataReads |-> 0]

\* The caller is in the loop of fillAtLeast.
InFill(t) == threads[t].pc \in {"loop", "return"}

\* The condition of the loop.
FillGuard(t) ==
    /\ threads[t].pc = "loop"
    /\ w - r < threads[t].local.n
    /\ threads[t].local.readErr = "nil"

\* The arguments fillAtLeast is called with.
FillArgs == (-1)..(capacity + 1)

\* fillAtLeast(n) up to its loop: the tests that return at once, and the
\* compaction.
FillCall(t) ==
    /\ \A u \in Threads : threads[u].pc = "idle"
    /\ \E n \in FillArgs :
          LET now == n < 0 \/ n = 0 \/ n > capacity \/ n <= w - r
              t1 == IF ~now /\ r + n >= capacity THEN Compact(Reader)
                    ELSE Reader
          IN  /\ Install(t1)
              /\ threads' = [threads EXCEPT ![t] =
                    [pc |-> IF now THEN "return" ELSE "loop",
                     on |-> "TextReader", op |-> "fillAtLeast",
                     local |-> FillLocals(n)]]
    /\ UNCHANGED <<out, done, mu, shared, history, heap, objs>>

\* One round of the loop.
FillStep(t) ==
    /\ FillGuard(t)
    /\ threads[t].local.reads <= capacity + 1
    /\ \E rd \in SourceAnswers(Reader, capacity - w) :
          LET round == FillRound(Reader, rd)
          IN  /\ Install(round.t)
              /\ threads' = [threads EXCEPT
                    ![t].local.readErr = round.readErr,
                    ![t].local.space = capacity - w,
                    ![t].local.reads = @ + 1,
                    ![t].local.dataReads = IF rd.n > 0 THEN @ + 1 ELSE @]
    /\ UNCHANGED <<out, done, mu, shared, history, heap, objs>>

\* The loop is left and fillAtLeast returns.
FillReturn(t) ==
    /\ InFill(t)
    /\ ~FillGuard(t)
    /\ threads' = [threads EXCEPT ![t] = Idle]
    /\ UNCHANGED <<input, capacity, src, buf, r, w, lastRuneSize, lastByte,
                   runesPerLine, bytesPerLine, offset, out, done,
                   mu, shared, history, heap, objs>>

\* The calls that bring the reader to the state fillAtLeast is called in.
FillReads ==
    /\ \A u \in Threads : threads[u].pc = "idle"
    /\ (ReadByte \/ ReadRune)

NextFill ==
    \/ FillReads
    \/ \E t \in Threads : FillCall(t) \/ FillStep(t) \/ FillReturn(t)

\* A read of the source returns, and so does fillAtLeast after its loop.
FillFairness ==
    \A t \in Threads : WF_vars(FillStep(t)) /\ WF_vars(FillReturn(t))

SpecFill == InitLong /\ [][NextFill]_vars /\ FillFairness

(***************************************************************************)
(* The locks the calls take.  A call is the sequence of the steps it makes *)
(* on one of its return paths: locking and unlocking a mutex, reading the  *)
(* source, and the work it does in between.  The mutexes are the reader's  *)
(* (TextReader.mu) and one for each Position object, object 1 being the    *)
(* reader's Position.  What the calls compute is left out: every return    *)
(* path of a method is a path some call may take.                          *)
(***************************************************************************)
\* The reader's mutex among the mutexes: the objects' are 1, 2, ...
ReaderMu == 0

\* The steps of a call.
LockStep(m) == [do |-> "lock", m |-> m]
UnlockStep(m) == [do |-> "unlock", m |-> m]
WorkStep(m) == [do |-> "work", m |-> m]
CopyStep(m) == [do |-> "copy", m |-> m]
SourceStep == [do |-> "read", m |-> ReaderMu]

\* Position.Scan, Reset, Line, Column, Offset and String on object i: Lock,
\* the deferred Unlock, and between them work that takes no lock (Reset
\* calls reset).
LockedSteps(i) == <<LockStep(i), WorkStep(i), UnlockStep(i)>>

\* Position.Rewind as it would be if its case bytes == offset called Reset,
\* which locks, and not reset.
RewindStepsPublicReset(i) ==
    <<LockStep(i), LockStep(i), WorkStep(i), UnlockStep(i), UnlockStep(i)>>

\* Position.Rewind on object i, on each of its return paths (reset, called
\* when bytes == offset, takes no lock).
RewindSteps(i) == <<LockStep(i), WorkStep(i), UnlockStep(i)>>

\* Position.Copy on object i
CopySteps(i) == <<LockStep(i), CopyStep(i), UnlockStep(i)>>

\* The public methods of a Position and the steps of a call on object i.
PositionOps == {"Scan", "Rewind", "Reset", "Copy", "Offset"}

PositionPaths(op, i) ==
    IF op = "Rewind" THEN {RewindSteps(i)}
    ELSE IF op = "Copy" THEN {CopySteps(i)}
    ELSE {LockedSteps(i)}

\* fillAtLeast: no read of the source, or some.
FillPaths == {<<>>, <<SourceStep>>, <<SourceStep, SourceStep>>}

\* What a method of the reader does between t.mu.Lock() and the deferred
\* t.mu.Unlock(), on each of its return paths.
ReaderBodies(op) ==
    IF op \in {"ReadRune", "ReadByte"}
    THEN \* the fill, then an error or the end of the stream, or pos.Scan
         FillPaths \cup {f \o LockedSteps(1) : f \in FillPaths}
    ELSE IF op \in {"UnreadRune", "UnreadByte"}
    THEN \* nothing to undo, or pos.Rewind (which fails or not)
         {<<>>, RewindSteps(1)}
    ELSE IF op = "Read"
    THEN \* an empty span; rounds that drain (pos.Scan) and fill; a drain and
         \* the direct read with its pos.Scan
         {<<>>}
         \cup {f \o LockedSteps(1) : f \in FillPaths}
         \cup {LockedSteps(1) \o f \o LockedSteps(1) : f \in FillPaths}
         \cup {f : f \in FillPaths}
    ELSE IF op = "Seek"
    THEN \* with io.SeekStart, pos.Offset comes first
         LET first == {<<>>, LockedSteps(1)}
             \* no move: an error, or pos.Offset for the result
             still == {<<>>, LockedSteps(1)}
             \* forward: the fill, then an error, or pos.Scan and pos.Offset
             forward == FillPaths
                        \cup {f \o LockedSteps(1) \o LockedSteps(1) :
                                f \in FillPaths}
             \* backward: pos.Rewind, then an error, or pos.Offset
             backward == {RewindSteps(1),
                          RewindSteps(1) \o LockedSteps(1)}
         IN  {a \o b : a \in first, b \in still \cup forward \cup backward}
    ELSE \* Pos: pos.Copy
         {CopySteps(1)}

ReaderOps ==
    {"ReadRune", "UnreadRune", "Read", "ReadByte", "UnreadByte", "Seek", "Pos"}

\* A call of a method of the reader.
ReaderPaths(op) ==
    {<<LockStep(ReaderMu)>> \o b \o <<UnlockStep(ReaderMu)>> :
        b \in ReaderBodies(op)}

\* Who holds the mutex m: a caller, or 0.
Holder(m) == IF m = ReaderMu THEN mu.TextReader ELSE objs[m].mu

\* The mutex m is held by who.
SetHolder(m, who) ==
    /\ mu' = IF m = ReaderMu THEN [mu EXCEPT !.TextReader = who] ELSE mu
    /\ objs' = IF m = ReaderMu THEN objs ELSE [objs EXCEPT ![m].mu = who]

\* The next step of the call the caller t is in.
NextStep(t) == Head(threads[t].local)

\* The caller t is in a call and has a step to make.
InCall(t) == threads[t].pc = "call" /\ Len(threads[t].local) > 0

\* The caller's next step is made.
StepDone(t) == threads' = [threads EXCEPT ![t].local = Tail(@)]

\* A caller calls a method of the reader, or of a Position object.
StartCall(t) ==
    /\ threads[t].pc = "idle"
    /\ \/ \E op \in ReaderOps : \E path \in ReaderPaths(op) :
             threads' = [threads EXCEPT ![t] =
                [pc |-> "call", on |-> "TextReader", op |-> op,
                 local |-> path]]
       \/ \E i \in 1..Len(objs), op \in PositionOps :
             \E path \in PositionPaths(op, i) :
                threads' = [threads EXCEPT ![t] =
                   [pc |-> "call", on |-> "Position", op |-> op,
                    local |-> path]]
    /\ UNCHANGED <<input, capacity, src, buf, r, w, lastRuneSize, lastByte,
                   runesPerLine, bytesPerLine, offset, out, done,
                   mu, shared, history, heap, objs>>

\* Lock returns: the mutex was free and the caller holds it.
Acquire(t) ==
    /\ InCall(t)
    /\ NextStep(t).do = "lock"
    /\ Holder(NextStep(t).m) = 0
    /\ SetHolder(NextStep(t).m, t)
    /\ StepDone(t)
    /\ UNCHANGED <<input, capacity, src, buf, r, w, lastRuneSize, lastByte,
                   runesPerLine, bytesPerLine, offset, out, done,
                   shared, history, heap>>

\* Unlock
Release(t) ==
    /\ InCall(t)
    /\ NextStep(t).do = "unlock"
    /\ Holder(NextStep(t).m) = t
    /\ SetHolder(NextStep(t).m, 0)
    /\ StepDone(t)
    /\ UNCHANGED <<input, capacity, src, buf, r, w, lastRuneSize, lastByte,
                   runesPerLine, bytesPerLine, offset, out, done,
                   shared, history, heap>>

\* The work under a lock, and a read of the source that returns.
Work(t) ==
    /\ InCall(t)
    /\ NextStep(t).do \in {"work", "read"}
    /\ StepDone(t)
    /\ UNCHANGED <<input, capacity, src, buf, r, w, lastRuneSize, lastByte,
                   runesPerLine, bytesPerLine, offset, out, done,
                   mu, shared, history, heap, objs>>

\* Copy makes a Position object with a mutex of its own, which nobody
\* holds (when there are MaxObjects objects the caller drops the copy).
MakeCopy(t) ==
    /\ InCall(t)
    /\ NextStep(t).do = "copy"
    /\ objs' = IF Len(objs) < MaxObjects THEN Append(objs, NewObject)
               ELSE objs
    /\ StepDone(t)
    /\ UNCHANGED <<input, capacity, src, buf, r, w, lastRuneSize, lastByte,
                   runesPerLine, bytesPerLine, offset, out, done,
                   mu, shared, history, heap>>

\* The call returns.
EndCall(t) ==
    /\ threads[t].pc = "call"
    /\ Len(threads[t].local) = 0
    /\ threads' = [threads EXCEPT ![t] = Idle]
    /\ UNCHANGED <<input, capacity, src, buf, r, w, lastRuneSize, lastByte,
                   runesPerLine, bytesPerLine, offset, out, done,
                   mu, shared, history, heap, objs>>

NextLocks ==
    \E t \in Threads :
        \/ StartCall(t)
        \/ Acquire(t)
        \/ Release(t)
        \/ Work(t)
        \/ MakeCopy(t)
        \/ EndCall(t)

\* A caller that can make a step makes it, the source's reads return, and a
\* mutex that is free again and again is handed to every caller that waits
\* for it (sync.Mutex does not starve a waiter).
LockFairness ==
    \A t \in Threads :
        /\ WF_vars(Release(t))
        /\ WF_vars(Work(t))
        /\ WF_vars(MakeCopy(t))
        /\ WF_vars(EndCall(t))
        /\ SF_vars(Acquire(t))

SpecLocks == InitSnapshots /\ [][NextLocks]_vars /\ LockFairness

(***************************************************************************)
(* What the claims are stated with                                         *)
(***************************************************************************)
\* (line, column, offset) as Pos() reports them.
Lco(t) == <<PosLine(Pos(t)), PosColumn(Pos(t)), PosOffset(Pos(t))>>

\* Number of newline bytes in s.
RECURSIVE Newlines(_)
Newlines(s) ==
    IF Len(s) = 0 THEN 0
    ELSE (IF Head(s) = newLine THEN 1 ELSE 0) + Newlines(Tail(s))

\* The first k bytes of the input.
Prefix(k) == SubSeqOrEmpty(input, 1, k)

\* What the next ReadByte returns when the source works: <<error, byte>>.
NextByte(t) ==
    {<<ReadByteOp(t, beh).err, ReadByteOp(t, beh).val>> : beh \in NoFault}

\* What a reader that has consumed exactly k bytes of the input returns next.
ByteAt(k) == IF k < Len(input) THEN <<"nil", input[k + 1]>> ELSE <<"EOF", 0>>

(***************************************************************************)
(* C1  Round trip.  When a loop of ReadRune calls over a valid UTF-8 input *)
(* has ended on end of stream, the code points it received, encoded and    *)
(* concatenated in order, are the input, for every capacity and every way  *)
(* the source splits its data.                                             *)
(***************************************************************************)
C1_RoundTrip ==
    (done = "EOF" /\ ValidUTF8(input)) => EncodeRunes(out) = input

\* A valid input longer than the buffer, holding a multi-byte character, was
\* read to its end.
C1_Witness ==
    /\ done = "EOF"
    /\ ValidUTF8(input)
    /\ Len(input) > capacity
    /\ Len(out) >= 2
    /\ Len(out) < Len(input)

(***************************************************************************)
(* C2  Offset and line identities.  In every state the calls can reach,    *)
(* Pos().Offset() is the stream index k of the next byte to be returned    *)
(* (the bytes the source delivered less the unread buffered ones; the next *)
(* ReadByte returns input byte k, or end of stream when k is the input's   *)
(* length), and Pos().Line() is 1 plus the number of newline bytes among   *)
(* the first k bytes of the input.                                         *)
(***************************************************************************)
C2_OffsetLine ==
    LET k == PosOffset(Pos(Reader))
    IN  /\ k = src - (w - r)
        /\ NextByte(Reader) = {ByteAt(k)}
        /\ PosLine(Pos(Reader)) = 1 + Newlines(Prefix(k))

\* Two lines have been consumed, then the reader went back over a newline,
\* after the start of the stream had been discarded from the buffer.
C2_Witness ==
    /\ offset = 1
    /\ offset - r > 0
    /\ Newlines(input) >= 2
    /\ src = Len(input)
    /\ lastRuneSize = -1
    /\ lastByte = -1

(***************************************************************************)
(* C3  Column identity.  For a valid UTF-8 input, whenever the consumed    *)
(* bytes end on a code point boundary, Pos().Column() is the number of     *)
(* code points between the last consumed newline and the offset, whatever  *)
(* mix of calls consumed the bytes.                                        *)
(***************************************************************************)
\* Whether s splits into whole code points (k bytes end on a boundary).
OnBoundary(k) == k <= Len(input) /\ ValidUTF8(Prefix(k))

\* The part of s after its last newline.
RECURSIVE LastLine(_)
LastLine(s) ==
    IF Len(s) = 0 \/ s[Len(s)] = newLine THEN <<>>
    ELSE Append(LastLine(SubSeqOrEmpty(s, 1, Len(s) - 1)), s[Len(s)])

\* The column of stream offset k: code points since the last newline.
ColumnAt(k) == RuneCount(LastLine(Prefix(k)))

C3_ColumnIdentity ==
    (ValidUTF8(input) /\ OnBoundary(offset))
        => PosColumn(Pos(Reader)) = ColumnAt(offset)

(***************************************************************************)
(* C4  Read then undo.  From every reachable state, a ReadRune that        *)
(* succeeds and is followed at once by UnreadRune: the UnreadRune          *)
(* succeeds, Pos() reports the (line, column, offset) it reported before   *)
(* the ReadRune, and the next ReadRune (the source working) returns the    *)
(* same rune and size.  Likewise for ReadByte and UnreadByte.              *)
(***************************************************************************)
C4_ReadUndo ==
    /\ \A beh \in Behaviours :
          LET rd == ReadRuneOp(Reader, beh)
              un == UnreadRuneOp(rd.t)
          IN  rd.err = "nil" =>
                /\ un.err = "nil"
                /\ Lco(un.t) = Lco(Reader)
                /\ \A again \in NoFault :
                      LET rd2 == ReadRuneOp(un.t, again)
                      IN  <<rd2.err, rd2.val, rd2.n>> = <<"nil", rd.val, rd.n>>
    /\ \A beh \in Behaviours :
          LET rd == ReadByteOp(Reader, beh)
              un == UnreadByteOp(rd.t)
          IN  rd.err = "nil" =>
                /\ un.err = "nil"
                /\ Lco(un.t) = Lco(Reader)
                /\ \A again \in NoFault :
                      LET rd2 == ReadByteOp(un.t, again)
                      IN  <<rd2.err, rd2.val>> = <<"nil", rd.val>>

\* A multi-byte character has been read and un-read on a second line, and a
\* newline is the next byte to read and un-read.
C4_Witness ==
    /\ lastRuneSize = -1
    /\ lastByte = -1
    /\ PosLine(Pos(Reader)) = 2
    /\ offset = 1
    /\ \E beh \in NoFault : ReadRuneOp(Reader, beh).n >= 2
    /\ \E beh \in NoFault :
          LET rd == ReadRuneOp(Reader, beh)
          IN  UnreadRuneOp(rd.t).err = "nil" /\ UnreadRuneOp(rd.t).t.r < rd.t.r

(***************************************************************************)
(* C5  Undo is single-level.  From every reachable state, an UnreadRune    *)
(* that follows a successful UnreadRune fails with ErrInvalidUnreadRune    *)
(* and changes no field of the reader; likewise an UnreadByte that follows *)
(* a successful UnreadByte fails with ErrInvalidUnreadByte.                *)
(***************************************************************************)
C5_SingleLevelUndo ==
    /\ LET un == UnreadRuneOp(Reader)
           un2 == UnreadRuneOp(un.t)
       IN  un.err = "nil" =>
             un2.err = "ErrInvalidUnreadRune" /\ un2.t = un.t
    /\ LET un == UnreadByteOp(Reader)
           un2 == UnreadByteOp(un.t)
       IN  un.err = "nil" =>
             un2.err = "ErrInvalidUnreadByte" /\ un2.t = un.t

\* A rune of several bytes can be un-read, and so could the one before it if
\* undo had a second level.
C5_Witness ==
    /\ lastRuneSize >= 2
    /\ UnreadRuneOp(Reader).err = "nil"
    /\ UnreadRuneOp(Reader).t.r >= 1

(***************************************************************************)
(* C6  A failing Seek changes nothing observable.  From every reachable    *)
(* state and for every Seek that returns an error (out of buffer,          *)
(* negative position, invalid whence, source exhausted or failing before   *)
(* the target), Pos() reports the same (line, column, offset) as before    *)
(* and the next ReadByte returns what it would have returned without the   *)
(* Seek.                                                                   *)
(***************************************************************************)
C6_FailingSeekKeepsPos ==
    LET before == NextByte(Reader)
    IN  \A a \in SeekArgs, beh \in Behaviours :
            LET sk == SeekOp(Reader, a[1], a[2], beh)
            IN  sk.err # "nil" =>
                  /\ Lco(sk.t) = Lco(Reader)
                  /\ NextByte(sk.t) = before

\* Some forward Seek fails after it has compacted the buffer and pulled more
\* data from the source, on a second line and with unread data.
C6_Witness ==
    /\ PosLine(Pos(Reader)) >= 2
    /\ r > 0
    /\ \E a \in SeekArgs, beh \in Behaviours :
          LET sk == SeekOp(Reader, a[1], a[2], beh)
          IN  /\ sk.err = "ErrSeekOutOfBuffer"
              /\ sk.t.r = 0
              /\ sk.t.src > src
              /\ sk.t.w > 0

(***************************************************************************)
(* C7  A failing call leaves the undo marker alone.  From every reachable  *)
(* state in which UnreadRune (UnreadByte) would succeed, it still succeeds *)
(* after a Seek, ReadRune, ReadByte or Read that returns an error, and     *)
(* leaves the reader where it would have left it before that call.         *)
(***************************************************************************)
\* The readers a failing call can leave.
AfterFailure ==
    {ReadRuneOp(Reader, beh).t :
        beh \in {b \in Behaviours : ReadRuneOp(Reader, b).err # "nil"}}
    \cup {ReadByteOp(Reader, beh).t :
        beh \in {b \in Behaviours : ReadByteOp(Reader, b).err # "nil"}}
    \cup {ReadOp(Reader, x[1], x[2]).t :
        x \in {y \in ReadLens \X Behaviours :
                 ReadOp(Reader, y[1], y[2]).err # "nil"}}
    \cup {SeekOp(Reader, x[1][1], x[1][2], x[2]).t :
        x \in {y \in SeekArgs \X Behaviours :
                 SeekOp(Reader, y[1][1], y[1][2], y[2]).err # "nil"}}

C7_FailureKeepsUndo ==
    /\ UnreadRuneOp(Reader).err = "nil" =>
          \A t \in AfterFailure :
              /\ UnreadRuneOp(t).err = "nil"
              /\ Lco(UnreadRuneOp(t).t) = Lco(UnreadRuneOp(Reader).t)
    /\ UnreadByteOp(Reader).err = "nil" =>
          \A t \in AfterFailure :
              /\ UnreadByteOp(t).err = "nil"
              /\ Lco(UnreadByteOp(t).t) = Lco(UnreadByteOp(Reader).t)

(***************************************************************************)
(* C8  Undo after end of stream.  From every reachable state, when         *)
(* ReadRune fails with EOF right after a rune was read (the undo marker is *)
(* set), the UnreadRune that follows succeeds and the next ReadRune        *)
(* returns the rune before the end again; likewise for ReadByte and        *)
(* UnreadByte.                                                             *)
(***************************************************************************)
C8_UndoAfterEOF ==
    /\ \A beh \in Behaviours :
          LET rd == ReadRuneOp(Reader, beh)
              un == UnreadRuneOp(rd.t)
          IN  (lastRuneSize > 0 /\ rd.err = "EOF") =>
                /\ un.err = "nil"
                /\ \A again \in NoFault :
                      ReadRuneOp(un.t, again).n = lastRuneSize
    /\ \A beh \in Behaviours :
          LET rd == ReadByteOp(Reader, beh)
              un == UnreadByteOp(rd.t)
          IN  (lastByte >= 0 /\ lastRuneSize < 0 /\ rd.err = "EOF") =>
                /\ un.err = "nil"
                /\ \A again \in NoFault :
                      ReadByteOp(un.t, again).val = lastByte

SeekTarget(off, whence) ==
    IF whence = SeekStart THEN off
    ELSE IF whence = SeekCurrent THEN offset + off
    ELSE offset + (w - r) + off

C10_SeekReturnsOffset ==
    \A a \in SeekArgs, beh \in Behaviours :
        LET sk == SeekOp(Reader, a[1], a[2], beh)
        IN  sk.err = "nil" =>
              /\ sk.val = SeekTarget(a[1], a[2])
              /\ PosOffset(Pos(sk.t)) = sk.val
              /\ NextByte(sk.t) = {ByteAt(sk.val)}

\* The start of the stream has been discarded from the buffer, and a Seek
\* from io.SeekStart goes back to a byte that is still buffered.
C10_Witness ==
    /\ offset - r > 0
    /\ \E a \in SeekArgs, beh \in Behaviours :
          LET sk == SeekOp(Reader, a[1], a[2], beh)
          IN  /\ a[2] = SeekStart
              /\ sk.err = "nil"
              /\ sk.val < offset
              /\ sk.val = offset - r

(***************************************************************************)
(* C11  Seek to the start, then to the end.  As claimed: from every        *)
(* reachable state, when Seek(0, io.SeekStart) and then                    *)
(* Seek(0, io.SeekEnd) both succeed, Pos().Offset() is the length of the   *)
(* input and the next ReadByte fails with end of stream.                   *)
(***************************************************************************)
C11_SeekEndIsInputEnd ==
    \A b1 \in Behaviours, b2 \in Behaviours :
        LET s1 == SeekOp(Reader, 0, SeekStart, b1)
            s2 == SeekOp(s1.t, 0, SeekEnd, b2)
        IN  (s1.err = "nil" /\ s2.err = "nil") =>
              /\ PosOffset(Pos(s2.t)) = Len(input)
              /\ NextByte(s2.t) = {<<"EOF", 0>>}

(***************************************************************************)
(* C11, amended.  From every reachable state, when Seek(0, io.SeekStart)   *)
(* and then Seek(0, io.SeekEnd) both succeed, the second returns the       *)
(* offset of the end of the buffered data, which is the number of bytes    *)
(* the source has delivered; Pos().Offset() is that offset and the next    *)
(* ReadByte returns the input byte there.  Only when the source has        *)
(* delivered the whole input is that the length of the input, the next     *)
(* ReadByte failing with end of stream.                                    *)
(***************************************************************************)
C11_SeekEndIsBufferedEnd ==
    \A b1 \in Behaviours, b2 \in Behaviours :
        LET s1 == SeekOp(Reader, 0, SeekStart, b1)
            s2 == SeekOp(s1.t, 0, SeekEnd, b2)
        IN  (s1.err = "nil" /\ s2.err = "nil") =>
              /\ s2.val = src
              /\ PosOffset(Pos(s2.t)) = src
              /\ NextByte(s2.t) = {ByteAt(src)}
              /\ src = Len(input) =>
                    /\ PosOffset(Pos(s2.t)) = Len(input)
                    /\ NextByte(s2.t) = {<<"EOF", 0>>}

\* The whole input, of several bytes and lines, is buffered and partly
\* consumed; the seek to the start goes back and the seek to the end goes
\* forward over all of it.
C11_Witness ==
    /\ src = Len(input)
    /\ Len(input) >= 2
    /\ Newlines(input) >= 1
    /\ offset > 0
    /\ \E b1 \in Behaviours, b2 \in Behaviours :
          LET s1 == SeekOp(Reader, 0, SeekStart, b1)
              s2 == SeekOp(s1.t, 0, SeekEnd, b2)
          IN  /\ s1.err = "nil"
              /\ s1.val = 0
              /\ s2.err = "nil"
              /\ s2.val = Len(input)

(***************************************************************************)
(* C12  Seek to a discarded byte.  In every reachable state, for every     *)
(* stream offset k before the start of the buffered window (the bytes the  *)
(* source delivered that the buffer no longer holds, discarded by          *)
(* compaction or by a direct bulk read), Seek(k, io.SeekStart) fails with  *)
(* ErrSeekOutOfBuffer, returns 0 and leaves the reader, Pos() included, as *)
(* it was.                                                                 *)
(***************************************************************************)
\* The stream offset of buffer index 0: what the source delivered less what
\* the buffer holds.
WindowStart == src - w

C12_SeekDiscarded ==
    \A k \in 0..(WindowStart - 1), beh \in Behaviours :
        LET sk == SeekOp(Reader, k, SeekStart, beh)
        IN  /\ sk.err = "ErrSeekOutOfBuffer"
            /\ sk.val = 0
            /\ Pos(sk.t) = Pos(Reader)
            /\ sk.t = Reader

\* Compaction has discarded the start of the stream while the buffer still
\* holds consumed bytes, and the seek to offset 0 fails.
C12_Witness ==
    /\ WindowStart >= 1
    /\ r >= 1
    /\ offset >= 2
    /\ \E beh \in Behaviours :
          SeekOp(Reader, 0, SeekStart, beh).err = "ErrSeekOutOfBuffer"

(***************************************************************************)
(* C13  Backward seek before the window.  From every reachable state, a    *)
(* Seek with io.SeekCurrent or io.SeekEnd whose target lies before the     *)
(* start of the buffered window while its stream offset is not negative    *)
(* fails with ErrSeekOutOfBuffer, not with the negative-position error,    *)
(* and leaves Pos() as it was.                                             *)
(***************************************************************************)
C13_BackwardBeforeWindow ==
    \A a \in SeekArgs, beh \in Behaviours :
        LET sk == SeekOp(Reader, a[1], a[2], beh)
            target == SeekTarget(a[1], a[2])
        IN  (/\ a[2] \in {SeekCurrent, SeekEnd}
             /\ target < WindowStart
             /\ target >= 0) =>
              /\ sk.err = "ErrSeekOutOfBuffer"
              /\ Pos(sk.t) = Pos(Reader)

(***************************************************************************)
(* C14  Invalid whence and negative position.  From every reachable state, *)
(* a Seek with a whence other than io.SeekStart, io.SeekCurrent and        *)
(* io.SeekEnd fails with the invalid-whence error, and a Seek whose target *)
(* has a negative stream offset fails with the negative-position error;    *)
(* both return 0 and leave every field of the reader (cursors, Position,   *)
(* undo markers) as it was.                                                *)
(***************************************************************************)
C14_WhenceAndNegative ==
    /\ \A off \in (-MaxSeek)..MaxSeek, whence \in {SeekStart - 1, SeekEnd + 1},
          beh \in Behaviours :
          LET sk == SeekOp(Reader, off, whence, beh)
          IN  /\ sk.err = "ErrInvalidWhence"
              /\ sk.val = 0
              /\ sk.t = Reader
    /\ \A a \in SeekArgs, beh \in Behaviours :
          LET sk == SeekOp(Reader, a[1], a[2], beh)
          IN  (/\ a[2] \in {SeekStart, SeekCurrent, SeekEnd}
               /\ SeekTarget(a[1], a[2]) < 0) =>
                /\ sk.err = "ErrNegativePosition"
                /\ sk.val = 0
                /\ sk.t = Reader

\* A rune can be un-read, the start of the stream has been discarded, and
\* seeks from the cursor and from the end of the buffered data have negative
\* targets.
C14_Witness ==
    /\ UnreadRuneOp(Reader).err = "nil"
    /\ WindowStart >= 1
    /\ \E a \in SeekArgs :
          a[2] = SeekCurrent /\ SeekTarget(a[1], a[2]) < 0
    /\ \E a \in SeekArgs :
          a[2] = SeekEnd /\ SeekTarget(a[1], a[2]) < 0

(***************************************************************************)
(* C15  Position after a backward seek.  For a valid UTF-8 input whose     *)
(* bytes were consumed by any mix of Read, ReadByte and ReadRune, after a  *)
(* Seek that succeeds and goes back to an offset a on a code point         *)
(* boundary, Pos().Line() is 1 plus the number of newlines before a,       *)
(* Pos().Column() is the number of code points between the last newline    *)
(* before a and a, and Column() is not negative.                           *)
(***************************************************************************)
C15_BackwardSeekPosition ==
    ValidUTF8(input) =>
        \A a \in SeekArgs, beh \in Behaviours :
            LET sk == SeekOp(Reader, a[1], a[2], beh)
            IN  (/\ sk.err = "nil"
                 /\ sk.val < offset
                 /\ OnBoundary(sk.val)) =>
                  /\ PosLine(Pos(sk.t)) = 1 + Newlines(Prefix(sk.val))
                  /\ PosColumn(Pos(sk.t)) = ColumnAt(sk.val)
                  /\ PosColumn(Pos(sk.t)) >= 0

(***************************************************************************)
(* C16  Forward seek and bulk read.  From every reachable state, when a    *)
(* Seek succeeds and goes forward from offset o to offset a, and a single  *)
(* Read of a - o bytes from the same state returns all a - o bytes, the    *)
(* two leave the same (line, column, offset), and the bytes the Read       *)
(* returns are the input bytes from o to a.                                *)
(***************************************************************************)
C16_ForwardSeekAsRead ==
    \A a \in SeekArgs, beh \in Behaviours :
        LET sk == SeekOp(Reader, a[1], a[2], beh)
        IN  (sk.err = "nil" /\ sk.val > offset) =>
              \A b2 \in Behaviours :
                  LET rd == ReadOp(Reader, sk.val - offset, b2)
                  IN  (rd.err = "nil" /\ rd.n = sk.val - offset) =>
                        /\ rd.data = Slice(input, offset, sk.val)
                        /\ Lco(sk.t) = Lco(rd.t)

(***************************************************************************)
(* C17  Forward seek out of the buffer.  From every reachable state, a     *)
(* Seek that goes forward fails with ErrSeekOutOfBuffer when its distance  *)
(* exceeds the capacity, whatever the source does, and when its target     *)
(* lies beyond the end of the input and the source works (it reaches the   *)
(* end of the stream before the target is buffered); no Seek ever fails    *)
(* with the source's io.EOF.                                               *)
(***************************************************************************)
\* The seeks of C17: forward distances up to one more than the capacity.
ForwardArgs == (1..(capacity + 1)) \X {SeekStart, SeekCurrent, SeekEnd}

C17_ForwardOutOfBuffer ==
    /\ \A a \in SeekArgs \cup ForwardArgs, beh \in Behaviours :
          SeekOp(Reader, a[1], a[2], beh).err # "EOF"
    /\ \A a \in ForwardArgs, beh \in Behaviours :
          LET sk == SeekOp(Reader, a[1], a[2], beh)
              target == SeekTarget(a[1], a[2])
          IN  /\ target - offset > capacity
                    => sk.err = "ErrSeekOutOfBuffer"
              /\ (/\ target > offset
                  /\ target > Len(input)
                  /\ beh \in NoFault)
                    => sk.err = "ErrSeekOutOfBuffer"

\* Part of the input is consumed and part is not yet delivered; a forward
\* Seek within the capacity pulls the rest from the source, reaches the end
\* of the stream and fails; another one is longer than the capacity.
C17_Witness ==
    /\ r > 0
    /\ src < Len(input)
    /\ \E a \in ForwardArgs, beh \in NoFault :
          LET sk == SeekOp(Reader, a[1], a[2], beh)
              target == SeekTarget(a[1], a[2])
          IN  /\ sk.err = "ErrSeekOutOfBuffer"
              /\ target - offset <= capacity
              /\ sk.t.src = Len(input)
    /\ \E a \in ForwardArgs, beh \in NoFault :
          LET sk == SeekOp(Reader, a[1], a[2], beh)
          IN  /\ sk.err = "ErrSeekOutOfBuffer"
              /\ SeekTarget(a[1], a[2]) - offset > capacity

(***************************************************************************)
(* C18  ReadRune on an invalid encoding.  From every reachable state in    *)
(* which the input at the current offset starts with an invalid leading    *)
(* byte or a truncated sequence, ReadRune (the source working) returns     *)
(* utf8.RuneError with size 1 and no error, advances the offset by 1 and   *)
(* the column by 1, sets the rune undo marker to 1 and clears the byte     *)
(* marker, and the ReadRune after it decodes from the very next byte of    *)
(* the input.                                                              *)
(***************************************************************************)
\* The input from stream offset k on.
Suffix(k) == Slice(input, k, Len(input))

\* What ReadRune returns at stream offset k when the source works:
\* <<error, rune, size>>.
RuneAt(k) ==
    IF k >= Len(input) THEN <<"EOF", 0, 0>>
    ELSE <<"nil", DecodeRune(Suffix(k)).rune, DecodeRune(Suffix(k)).size>>

C18_InvalidEncoding ==
    RuneAt(offset) = <<"nil", RuneError, 1>> =>
        \A beh \in NoFault :
            LET rd == ReadRuneOp(Reader, beh)
            IN  /\ <<rd.err, rd.val, rd.n>> = <<"nil", RuneError, 1>>
                /\ PosOffset(Pos(rd.t)) = offset + 1
                /\ PosColumn(Pos(rd.t)) = PosColumn(Pos(Reader)) + 1
                /\ PosLine(Pos(rd.t)) = PosLine(Pos(Reader))
                /\ rd.t.lastRuneSize = 1
                /\ rd.t.lastByte = -1
                /\ UnreadRuneOp(rd.t).err = "nil"
                /\ \A b2 \in NoFault :
                      LET rd2 == ReadRuneOp(rd.t, b2)
                      IN  <<rd2.err, rd2.val, rd2.n>> = RuneAt(offset + 1)

\* Some bytes are consumed and the next one is an invalid start of a rune,
\* with a valid rune right after it.
C18_Witness ==
    /\ offset >= 1
    /\ RuneAt(offset) = <<"nil", RuneError, 1>>
    /\ RuneAt(offset + 1)[1] = "nil"
    /\ RuneAt(offset + 1)[2] # RuneError

(***************************************************************************)
(* C19  Forward progress.  Over any input, valid or malformed, whose       *)
(* source works, every ReadRune of the loop that succeeds advances the     *)
(* offset by 1 to 4 bytes, the loop never makes more successful calls than *)
(* the input has bytes, and it ends on end of stream.                      *)
(***************************************************************************)
C19_ForwardProgress ==
    /\ [][out' # out => (offset' - offset) \in 1..UTFMax]_vars
    /\ [](Len(out) <= Len(input))
    /\ <>(done = "EOF")

\* The loop has ended over a malformed input longer than the buffer, after
\* as many successful calls as the input has bytes.
C19_Witness ==
    /\ done = "EOF"
    /\ ~ValidUTF8(input)
    /\ Len(input) > capacity
    /\ Len(out) = Len(input)
    /\ offset = Len(input)

(***************************************************************************)
(* C20  What Read returns.  From every reachable state and for every       *)
(* Read: it returns at most len(p) bytes; when it returns an error it      *)
(* returns 0 bytes and has consumed nothing; when it returns n > 0 bytes   *)
(* it returns no error, the bytes are the next n bytes of the input in     *)
(* order and the offset has advanced by n; and once the whole input is     *)
(* consumed, a Read of at least one byte (the source working) returns 0    *)
(* bytes and io.EOF.                                                       *)
(***************************************************************************)
C20_ReadContract ==
    /\ \A needed \in ReadLens, beh \in Behaviours :
          LET rd == ReadOp(Reader, needed, beh)
          IN  /\ rd.n <= needed
              /\ Len(rd.data) = rd.n
              /\ rd.err # "nil" =>
                    /\ rd.n = 0
                    /\ PosOffset(Pos(rd.t)) = offset
              /\ rd.n > 0 =>
                    /\ rd.err = "nil"
                    /\ rd.data = Slice(input, offset, offset + rd.n)
                    /\ PosOffset(Pos(rd.t)) = offset + rd.n
    /\ offset = Len(input) =>
          \A needed \in ReadLens \ {0}, beh \in NoFault :
              LET rd == ReadOp(Reader, needed, beh)
              IN  rd.err = "EOF" /\ rd.n = 0

\* Part of the input is consumed; a Read of more bytes than are left meets
\* the end of the stream, returns the bytes left with no error, and the same
\* Read again returns 0 bytes and io.EOF.
C20_Witness ==
    /\ offset >= 1
    /\ \E needed \in ReadLens, beh \in NoFault :
          LET rd == ReadOp(Reader, needed, beh)
          IN  /\ rd.err = "nil"
              /\ rd.n >= 2
              /\ rd.n < needed
              /\ ReadOp(rd.t, needed, beh).err = "EOF"

(***************************************************************************)
(* C21  Undo after a bulk Read.  From every reachable state and after      *)
(* every Read, whatever its length and whatever it returns: UnreadRune     *)
(* fails with ErrInvalidUnreadRune; UnreadByte succeeds only when the Read *)
(* produced at least one byte, and then it moves the offset back to the    *)
(* last byte the Read produced, which the next ReadByte returns again;     *)
(* after a Read that produced no byte UnreadByte fails with                *)
(* ErrInvalidUnreadByte.                                                   *)
(***************************************************************************)
C21_UndoAfterRead ==
    \A needed \in ReadLens, beh \in Behaviours :
        LET rd == ReadOp(Reader, needed, beh)
            ub == UnreadByteOp(rd.t)
        IN  /\ UnreadRuneOp(rd.t).err = "ErrInvalidUnreadRune"
            /\ ub.err = "nil" =>
                  /\ rd.n >= 1
                  /\ PosOffset(Pos(ub.t)) = offset + rd.n - 1
                  /\ NextByte(ub.t) = {<<"nil", rd.data[rd.n]>>}
            /\ rd.n = 0 => ub.err = "ErrInvalidUnreadByte"

(***************************************************************************)
(* C22  End of stream is stable.  In every reachable state in which the    *)
(* whole input is consumed (the empty input included) and with a source    *)
(* that works, each of ReadRune, ReadByte and Read of a non-empty span     *)
(* fails with io.EOF and returns zero results, and leaves the (line,       *)
(* column, offset) that Pos() reports as they were;                        *)
(* the reader it leaves has still consumed the whole input, so that any of *)
(* the three calls made next fails in the same way, and so on for every    *)
(* repetition.                                                             *)
(***************************************************************************)
\* What the three reading calls return and leave: <<error, value, count>>
\* and the reader afterwards.
ReadingCalls(t) ==
    {[res |-> <<ReadRuneOp(t, beh).err, ReadRuneOp(t, beh).val,
                ReadRuneOp(t, beh).n>>,
      t |-> ReadRuneOp(t, beh).t] : beh \in NoFault}
    \cup {[res |-> <<ReadByteOp(t, beh).err, ReadByteOp(t, beh).val, 0>>,
           t |-> ReadByteOp(t, beh).t] : beh \in NoFault}
    \cup {[res |-> <<ReadOp(t, x[1], x[2]).err, 0, ReadOp(t, x[1], x[2]).n>>,
           t |-> ReadOp(t, x[1], x[2]).t] :
             x \in (ReadLens \ {0}) \X NoFault}

C22_EndOfStreamStable ==
    offset = Len(input) =>
        \A c1 \in ReadingCalls(Reader) :
            /\ c1.res = <<"EOF", 0, 0>>
            /\ Lco(c1.t) = Lco(Reader)
            /\ PosOffset(Pos(c1.t)) = Len(input)
            /\ \A c2 \in ReadingCalls(c1.t) :
                  /\ c2.res = <<"EOF", 0, 0>>
                  /\ Lco(c2.t) = Lco(Reader)

\* An input of two lines has been consumed to its end and a call has already
\* met the end of the stream (it left the buffer empty).
C22_Witness ==
    /\ offset = Len(input)
    /\ Len(input) >= 2
    /\ PosLine(Pos(Reader)) >= 2
    /\ r = 0
    /\ w = 0

(***************************************************************************)
(* C23  Undo of the other kind.  From every reachable state: when the most *)
(* recent call that succeeded was ReadRune or UnreadRune (calls that       *)
(* failed may have followed it), UnreadByte fails with                     *)
(* ErrInvalidUnreadByte; when it was ReadByte, UnreadByte or Read,         *)
(* UnreadRune fails with ErrInvalidUnreadRune; the failing call changes no *)
(* field of the reader (cursors, Position, undo markers).                  *)
(***************************************************************************)
\* The readers a call on t that returns an error can leave.
FailedCalls(t) ==
    {ReadRuneOp(t, beh).t :
        beh \in {b \in Behaviours : ReadRuneOp(t, b).err # "nil"}}
    \cup {ReadByteOp(t, beh).t :
        beh \in {b \in Behaviours : ReadByteOp(t, b).err # "nil"}}
    \cup {ReadOp(t, x[1], x[2]).t :
        x \in {y \in ReadLens \X Behaviours :
                 ReadOp(t, y[1], y[2]).err # "nil"}}
    \cup {SeekOp(t, x[1][1], x[1][2], x[2]).t :
        x \in {y \in SeekArgs \X Behaviours :
                 SeekOp(t, y[1][1], y[1][2], y[2]).err # "nil"}}

\* The readers a successful ReadRune or UnreadRune leaves.
AfterRuneCall ==
    {ReadRuneOp(Reader, beh).t :
        beh \in {b \in Behaviours : ReadRuneOp(Reader, b).err = "nil"}}
    \cup {UnreadRuneOp(Reader).t : x \in {y \in {0} :
                                           UnreadRuneOp(Reader).err = "nil"}}

\* The readers a successful ReadByte, UnreadByte or Read leaves.
AfterByteCall ==
    {ReadByteOp(Reader, beh).t :
        beh \in {b \in Behaviours : ReadByteOp(Reader, b).err = "nil"}}
    \cup {UnreadByteOp(Reader).t : x \in {y \in {0} :
                                           UnreadByteOp(Reader).err = "nil"}}
    \cup {ReadOp(Reader, x[1], x[2]).t :
        x \in {y \in ReadLens \X Behaviours :
                 ReadOp(Reader, y[1], y[2]).err = "nil"}}

C23_UndoOfOtherKind ==
    /\ \A t1 \in AfterRuneCall : \A t \in {t1} \cup FailedCalls(t1) :
          /\ UnreadByteOp(t).err = "ErrInvalidUnreadByte"
          /\ UnreadByteOp(t).t = t
    /\ \A t1 \in AfterByteCall : \A t \in {t1} \cup FailedCalls(t1) :
          /\ UnreadRuneOp(t).err = "ErrInvalidUnreadRune"
          /\ UnreadRuneOp(t).t = t

(***************************************************************************)
(* C25  Rewind inverts Scan.  From every Position a caller can reach, the  *)
(* one a fresh Position is in after Scan(s1) for any s1 (the empty one     *)
(* too) included, and for every span s2 that decodes into u code points    *)
(* (with newlines, multi-byte characters, invalid bytes): after Scan(s2),  *)
(* Rewind(len(s2), u) returns no error and leaves the (line, column,       *)
(* offset) there was before Scan(s2).                                      *)
(***************************************************************************)
\* (line, column, offset) of a Position.
PosLco(p) == <<PosLine(p), PosColumn(p), PosOffset(p)>>

C25_RewindInvertsScan ==
    \A s2 \in ScanTexts :
        LET rw == PosRewind(PosScan(Position, s2), Len(s2), RuneCount(s2))
        IN  /\ ~rw.err
            /\ PosLco(rw.pos) = PosLco(Position)

\* The Position has scanned into its second line, and some span of several
\* lines with a multi-byte character is scanned next and rewound over.
C25_Witness ==
    /\ PosLine(Position) = 2
    /\ PosColumn(Position) >= 1
    /\ \E s2 \in ScanTexts :
          /\ Newlines(s2) >= 2
          /\ RuneCount(s2) < Len(s2)
          /\ PosLine(PosScan(Position, s2)) = 4
          /\ ~PosRewind(PosScan(Position, s2), Len(s2), RuneCount(s2)).err

(***************************************************************************)
(* C26  Rewind is all-or-nothing.  From every Position a caller can reach: *)
(* Rewind with a negative byte or rune count, or with more bytes than the  *)
(* offset, returns an error; every Rewind that returns an error leaves the *)
(* line records and the offset exactly as they were (nothing is popped);   *)
(* and every Rewind that returns no error has moved the offset back by     *)
(* exactly the byte count it was given (nothing is clamped).               *)
(***************************************************************************)
C26_RewindAllOrNothing ==
    \A bytes \in RewindCounts \cup {offset + 1}, runes \in RewindCounts :
        LET rw == PosRewind(Position, bytes, runes)
        IN  /\ (bytes < 0 \/ runes < 0 \/ bytes > offset) => rw.err
            /\ rw.err => rw.pos = Position
            /\ ~rw.err => PosOffset(rw.pos) = offset - bytes

\* A Position in its third line, with fewer bytes scanned than a Rewind
\* within the counts tried asks for.
C26_Witness ==
    /\ PosLine(Position) = 3
    /\ PosColumn(Position) >= 1
    /\ offset < MaxRewind
    /\ PosRewind(Position, offset + 1, 1).err
    /\ PosRewind(Position, 1, -1).err

(***************************************************************************)
(* C27  Ledger invariant.  After any sequence of Scan, Rewind (returning   *)
(* an error or not), Reset and Copy, and for the copy Copy returns: there  *)
(* are as many byte counts as rune counts; Line() is the number of line    *)
(* records, 1 when there is none; Column() is the rune count of the last   *)
(* record, 0 when there is none; and Offset() is the sum of the byte       *)
(* counts of all records plus Line() - 1, one byte for the newline at      *)
(* every line boundary.                                                    *)
(***************************************************************************)
RECURSIVE SumSeq(_)
SumSeq(s) == IF Len(s) = 0 THEN 0 ELSE Head(s) + SumSeq(Tail(s))

LedgerInvariant(p) ==
    LET records == Len(p.runesPerLine)
    IN  /\ Len(p.bytesPerLine) = records
        /\ PosLine(p) = (IF records = 0 THEN 1 ELSE records)
        /\ PosColumn(p) = (IF records = 0 THEN 0 ELSE p.runesPerLine[records])
        /\ PosOffset(p) = SumSeq(p.bytesPerLine) + (PosLine(p) - 1)
        /\ \A i \in 1..records : p.bytesPerLine[i] >= 0

C27_LedgerInvariant ==
    /\ LedgerInvariant(Position)
    /\ LedgerInvariant(PosCopy(Position))

\* Three lines are recorded, one of them with a multi-byte character, after
\* a Rewind took more runes off the last record than it held.
C27_Witness ==
    /\ Len(bytesPerLine) = 3
    /\ \E i \in 1..Len(bytesPerLine) : bytesPerLine[i] > runesPerLine[i]
    /\ runesPerLine[3] < 0
    /\ offset >= 4

(***************************************************************************)
(* C29  Cursor invariant.  In every state the calls can reach, the buffer  *)
(* has capacity bytes and 0 <= r <= w <= capacity; and every slice of the  *)
(* buffer that ReadRune, ReadByte, Read or Seek reads from such a state,   *)
(* whatever the arguments and the source, lies within the buffered data:   *)
(* it starts at 0 or later and ends at the write cursor or before.         *)
(***************************************************************************)
\* The slice s lies within the data buffered when it is read.
InBuffered(s) == 0 <= s[1] /\ s[1] <= s[2] /\ s[2] <= s[3]

C29_CursorInvariant ==
    /\ Len(buf) = capacity
    /\ 0 <= r
    /\ r <= w
    /\ w <= capacity
    /\ \A beh \in Behaviours :
          /\ \A s \in ReadRuneSlices(Reader, beh) : InBuffered(s)
          /\ \A s \in ReadByteSlices(Reader, beh) : InBuffered(s)
          /\ \A needed \in ReadLens :
                \A s \in ReadSlices(Reader, needed, beh) : InBuffered(s)
          /\ \A a \in SeekArgs :
                \A s \in SeekSlices(Reader, a[1], a[2], beh) : InBuffered(s)

\* The buffer is full after a fill compacted it, the read cursor is inside
\* the buffered data, and a ReadRune, a Read and a Seek read from it.
C29_Witness ==
    /\ w = capacity
    /\ 0 < r
    /\ r < w
    /\ WindowStart > 0
    /\ \E beh \in Behaviours :
          /\ ReadRuneSlices(Reader, beh) # {}
          /\ ReadSlices(Reader, capacity + 1, beh) # {}
          /\ \E a \in SeekArgs : SeekSlices(Reader, a[1], a[2], beh) # {}

(***************************************************************************)
(* C30  The undo marker has three states.  In every state the calls can    *)
(* reach, the rune marker and the byte marker are not both set; the rune   *)
(* marker, when set, is a size from 1 to 4, the one the most recent        *)
(* successful ReadRune returned (the bytes before the read cursor, while   *)
(* they are still buffered, decode into a rune of that size); a ReadRune   *)
(* that succeeds sets the rune marker to the size it returns and clears    *)
(* the byte marker; and every UnreadRune or UnreadByte that succeeds       *)
(* leaves both markers unset.                                              *)
(***************************************************************************)
C30_UndoMarker ==
    /\ ~(lastRuneSize >= 0 /\ lastByte >= 0)
    /\ lastRuneSize \in {-1} \cup (1..UTFMax)
    /\ lastByte \in (-1)..255
    /\ (lastRuneSize >= 0 /\ r >= lastRuneSize) =>
          DecodeRune(Slice(buf, r - lastRuneSize, r)).size = lastRuneSize
    /\ \A beh \in Behaviours :
          LET rd == ReadRuneOp(Reader, beh)
          IN  rd.err = "nil" =>
                /\ rd.n \in 1..UTFMax
                /\ rd.t.lastRuneSize = rd.n
                /\ rd.t.lastByte = -1
    /\ LET un == UnreadRuneOp(Reader)
       IN  un.err = "nil" => (un.t.lastRuneSize = -1 /\ un.t.lastByte = -1)
    /\ LET un == UnreadByteOp(Reader)
       IN  un.err = "nil" => (un.t.lastRuneSize = -1 /\ un.t.lastByte = -1)

\* A rune of four bytes was read after single bytes, and it can be un-read.
C30_Witness ==
    /\ lastRuneSize = UTFMax
    /\ lastByte = -1
    /\ r > lastRuneSize
    /\ UnreadRuneOp(Reader).err = "nil"

(***************************************************************************)
(* C28  Calls are atomic under their lock.  For every interleaving of the  *)
(* steps of concurrent callers of ReadByte and Pos on one reader and of    *)
(* Scan on one Position: at most one caller at a time is inside a call on  *)
(* the same object, and it holds that object's mutex; the fields a call    *)
(* has read are still the fields of its object when it writes them back    *)
(* (no other call has changed them), so that each call works on what the   *)
(* call that finished before it left, and results and final state are      *)
(* those of the calls made one after the other in the order they finish.   *)
(* The ReadByte callers together have received the consumed bytes of the   *)
(* input in order, each byte once, and the offset of the shared Position   *)
(* is the sum of the lengths scanned (no update is lost).                  *)
(***************************************************************************)
\* The callers inside a call that locks the mutex m.
Inside(m) == {t \in Threads : threads[t].pc # "idle" /\ threads[t].on = m}

C28_AtomicCalls ==
    /\ \A m \in {"TextReader", "Position"} :
          /\ Cardinality(Inside(m)) <= 1
          /\ \A t \in Inside(m) : mu[m] = t
          /\ Inside(m) = {} => mu[m] = 0
    /\ \A t \in Threads :
          threads[t].pc = "loaded" =>
              threads[t].local = Locked(threads[t].on)
    /\ history.received = Prefix(offset)
    /\ PosOffset(shared) = history.scanned

\* One caller is inside ReadByte, having read the reader's fields, while the
\* other is inside Scan on the shared Position; bytes have been received
\* and scanned by calls that finished before.
C28_Witness ==
    /\ \E t1 \in Threads, t2 \in Threads :
          /\ threads[t1].pc = "loaded"
          /\ threads[t1].op = "ReadByte"
          /\ threads[t2].pc = "loaded"
          /\ threads[t2].op = "Scan"
    /\ Len(history.received) >= 2
    /\ history.scanned >= 2
    /\ offset < Len(input)


\* The callers that are inside a call on the Position object i.
CallersOf(i) ==
    {t \in Threads : threads[t].pc = "locked" /\ threads[t].on = i}

\* C24: a copy of a Position (the value Pos returns) holds the position its
\* original had when the copy was made and has an unlocked mutex of its
\* own; no call on one object, the reader's or a copy, changes the position
\* another object holds, because no two slices of the objects share an
\* array; and each object's mutex is held by the one caller inside a call on
\* that object, so that callers of different objects run at the same time.
C24_SnapshotIndependence ==
    /\ [](/\ \A k, l \in 1..(2 * Len(objs)) :
                (k # l /\ References(objs)[k] # 0)
                    => References(objs)[k] # References(objs)[l]
          /\ \A i \in 1..Len(objs) :
                /\ CallersOf(i) = IF objs[i].mu = 0 THEN {}
                                  ELSE {objs[i].mu})
    /\ [][/\ \A i \in 1..Len(objs) :
                (\A t \in CallersOf(i) : threads'[t].pc = "locked")
                    => View(heap', objs'[i]) = View(heap, objs[i])
          /\ Len(objs') # Len(objs) =>
                /\ Len(objs') = Len(objs) + 1
                /\ objs'[Len(objs')].mu = 0
                /\ \E t \in Threads :
                      /\ threads[t].pc = "locked"
                      /\ threads'[t].pc = "idle"
                      /\ View(heap', objs'[Len(objs')])
                            = View(heap, objs[threads[t].on])
                      /\ View(heap', objs'[threads[t].on])
                            = View(heap, objs[threads[t].on])]_vars

\* The reader's Position and two copies hold three different positions while
\* one caller is inside a call on the reader's Position and another inside
\* a call on the first copy.
C24_Witness ==
    /\ Len(objs) = MaxObjects
    /\ CallersOf(1) # {}
    /\ CallersOf(2) # {}
    /\ CallersOf(1) # CallersOf(2)
    /\ \A i, j \in 1..Len(objs) :
          i # j => PosLco(View(heap, objs[i])) # PosLco(View(heap, objs[j]))


(***************************************************************************)
(* C31  fillAtLeast(n) with 0 <= n <= capacity, from every state the calls *)
(* can reach and with every behaviour of the source: when n unread bytes   *)
(* are buffered already it succeeds, reads nothing from the source and     *)
(* leaves r, w and the buffer as they are; when it returns success and no  *)
(* error, at least n unread bytes are buffered; and when it reports that n *)
(* was not met, fewer than n are buffered and it returns the error that    *)
(* ended its reads (the source's, or no-progress for a read of nothing).   *)
(***************************************************************************)
C31_FillAtLeast ==
    \A n \in 0..capacity, beh \in Behaviours :
        LET f == fillAtLeast(Reader, n, beh)
        IN  /\ n <= w - r =>
                  /\ f.ok
                  /\ f.err = "nil"
                  /\ f.t = Reader
            /\ (f.ok /\ f.err = "nil") => f.t.w - f.t.r >= n
            /\ f.ok = (f.t.w - f.t.r >= n)
            /\ ~f.ok =>
                  /\ f.err \in {"EOF", "ErrIO", "ErrNoProgress"}
                  /\ f.err = "EOF" => f.t.src = Len(input)

\* Consumed bytes are still buffered before unread ones; one fill is met by
\* what is buffered, another reads the source and is met, a third is not.
C31_Witness ==
    /\ 0 < r
    /\ r < w
    /\ \E n \in 1..capacity, beh \in Behaviours :
          LET f == fillAtLeast(Reader, n, beh)
          IN  n > w - r /\ f.ok /\ f.err = "nil" /\ f.t.reads > 0
    /\ \E n \in 1..capacity, beh \in Behaviours :
          ~fillAtLeast(Reader, n, beh).ok


(***************************************************************************)
(* C32  Compaction preserves the unread data.  From every state the calls  *)
(* can reach, for every fillAtLeast(n) that compacts (n is more than is    *)
(* buffered and r + n >= capacity): the compaction moves the unread bytes  *)
(* [r, w) to [0, w - r) in the same order, sets r to 0 and w to w - r and  *)
(* leaves the number of unread bytes, the Position and the source alone;   *)
(* after the fill the buffer holds these bytes first and r is 0; the       *)
(* unread bytes are the bytes of the input at the Position's offset; and   *)
(* ReadByte, ReadRune and Read return from the compacted reader what they  *)
(* return from the reader as it was.                                       *)
(***************************************************************************)
\* What a call returns to its caller.
Returned(res) == <<res.err, res.val, res.n, res.data>>

C32_CompactionPreserves ==
    /\ Slice(buf, r, w) = Slice(input, offset, offset + (w - r))
    /\ LET c == Compact(Reader)
       IN  (\E n \in 1..capacity : n > w - r /\ r + n >= capacity) =>
              /\ c.r = 0
              /\ c.w = w - r
              /\ Slice(c.buf, 0, c.w) = Slice(buf, r, w)
              /\ Len(c.buf) = capacity
              /\ Pos(c) = Pos(Reader)
              /\ c.src = src
              /\ \A beh \in Behaviours :
                    /\ Returned(ReadByteOp(c, beh))
                          = Returned(ReadByteOp(Reader, beh))
                    /\ Returned(ReadRuneOp(c, beh))
                          = Returned(ReadRuneOp(Reader, beh))
                    /\ \A needed \in ReadLens :
                          Returned(ReadOp(c, needed, beh))
                             = Returned(ReadOp(Reader, needed, beh))
    /\ \A n \in 1..capacity, beh \in Behaviours :
          (n > w - r /\ r + n >= capacity) =>
              LET f == fillAtLeast(Reader, n, beh)
              IN  /\ f.t.r = 0
                  /\ f.t.w >= w - r
                  /\ Slice(f.t.buf, 0, w - r) = Slice(buf, r, w)
                  /\ Pos(f.t) = Pos(Reader)
                  /\ Slice(f.t.buf, 0, f.t.w)
                        = Slice(input, offset, offset + f.t.w)

\* Consumed bytes lie before unread ones, and a fill compacts the buffer
\* and then reads more bytes from the source.
C32_Witness ==
    /\ 0 < r
    /\ r < w
    /\ \E n \in 1..capacity, beh \in Behaviours :
          /\ n > w - r
          /\ r + n >= capacity
          /\ fillAtLeast(Reader, n, beh).t.w > w - r


(***************************************************************************)
(* C33  fillAtLeast terminates.  For every call fillAtLeast(n) from a      *)
(* state the reader reaches and every way the source answers: the source   *)
(* is never handed an empty span; every round of the loop either adds at   *)
(* least one byte or leaves an error that ends the loop (a read of nothing *)
(* with no error leaves the no-progress error); there are at most n reads  *)
(* that deliver bytes and at most n + 1 reads in all; and a caller in the  *)
(* loop leaves it and returns, provided each read of the source returns.   *)
(***************************************************************************)
C33_FillTerminates ==
    /\ [](\A t \in Threads :
             threads[t].pc = "loop" =>
                /\ threads[t].local.n \in 1..capacity
                /\ threads[t].local.space # 0
                /\ FillGuard(t) => capacity - w > 0
                /\ threads[t].local.dataReads <= threads[t].local.n
                /\ threads[t].local.reads <= threads[t].local.n + 1
                /\ threads[t].local.readErr # "nil" => ~FillGuard(t))
    /\ [][\A t \in Threads :
             (threads[t].pc = "loop" /\ threads'[t].pc = "loop"
              /\ threads'[t].local.reads # threads[t].local.reads) =>
                /\ w' > w \/ threads'[t].local.readErr # "nil"
                /\ (w' = w /\ src' = src /\ src < Len(input))
                      => threads'[t].local.readErr
                            \in {"ErrNoProgress", "ErrIO"}
                /\ w' <= capacity]_vars
    /\ \A t \in Threads :
          (threads[t].pc = "loop") ~> (threads[t].pc = "idle")

\* A caller is in the loop of fillAtLeast after a read that delivered bytes
\* and a read that delivered nothing and no error.
C33_Witness ==
    \E t \in Threads :
        /\ threads[t].pc = "loop"
        /\ threads[t].local.dataReads >= 1
        /\ threads[t].local.reads > threads[t].local.dataReads
        /\ threads[t].local.readErr = "ErrNoProgress"
        /\ w - r < threads[t].local.n


(***************************************************************************)
(* C34  Direct read.  From every state the calls can reach, a Read whose   *)
(* span is longer than the buffered bytes by more than capacity, whatever  *)
(* the source does: returns the buffered bytes followed by the bytes of    *)
(* one read of the source, which is the only one it makes; the Position is *)
(* the one that scanning the buffered bytes and then those bytes gives,    *)
(* its offset advanced by the number of bytes returned; the buffer is      *)
(* empty afterwards (r = w = 0) and both undo markers are unset; and then  *)
(* UnreadByte and UnreadRune fail and no Seek succeeds in going back.      *)
(***************************************************************************)
\* Lengths of spans that are read directly: the shortest one, and one that
\* is read directly however many bytes are buffered.
DirectLens == {w - r + capacity + 1, 2 * capacity + 1}

C34_DirectRead ==
    \A needed \in DirectLens, beh \in Behaviours :
        LET res == ReadOp(Reader, needed, beh)
            drained == Slice(buf, r, w)
            rd == SrcRead(src, needed - (w - r), beh, 0)
            got == Slice(input, src, src + rd.n)
            u == res.t
        IN  /\ res.reads = 1
            /\ res.data = drained \o got
            /\ res.n = Len(drained) + rd.n
            /\ u.src = src + rd.n
            /\ Lco(u) = PosLco(PosScan(PosScan(Reader.pos, drained), got))
            /\ PosOffset(u.pos) = offset + res.n
            /\ u.r = 0
            /\ u.w = 0
            /\ u.lastRuneSize = -1
            /\ u.lastByte = -1
            /\ UnreadByteOp(u).err # "nil"
            /\ UnreadRuneOp(u).err # "nil"
            /\ \A a \in SeekArgs, beh2 \in Behaviours :
                  LET sk == SeekOp(u, a[1], a[2], beh2)
                  IN  sk.err = "nil" => sk.val >= PosOffset(u.pos)

\* Unread bytes are buffered behind consumed ones and the source has more:
\* a direct read returns the buffered bytes and bytes read from the source.
C34_Witness ==
    /\ 0 < r
    /\ r < w
    /\ src < Len(input)
    /\ \E needed \in DirectLens, beh \in Behaviours :
          ReadOp(Reader, needed, beh).n > w - r


(***************************************************************************)
(* C35  Position sanity.  After any sequence of Scan, Rewind (with any     *)
(* arguments), Reset and Copy calls on a Position: Offset() >= 0,          *)
(* Line() >= 1 and Column() >= 0.  (Calls on one Position exclude each     *)
(* other, so an interleaving of concurrent calls is such a sequence.)      *)
(***************************************************************************)
C35_PositionSanity ==
    /\ PosOffset(Position) >= 0
    /\ PosLine(Position) >= 1
    /\ PosColumn(Position) >= 0

\* The part of it that concerns the offset and the line.
C35_OffsetAndLine ==
    /\ PosOffset(Position) >= 0
    /\ PosLine(Position) >= 1


(***************************************************************************)
(* C36  Scan does not depend on the chunks.  On any Position, scanning an  *)
(* input in two consecutive chunks, cut at any byte, gives the same line,  *)
(* column and offset as scanning it in one call.                           *)
(***************************************************************************)
\* Scanning in whole and scanning in[0:k] and then in[k:] agree.
SameAsChunks(p, in, k) ==
    PosLco(PosScan(PosScan(p, Slice(in, 0, k)), Slice(in, k, Len(in))))
        = PosLco(PosScan(p, in))

C36_ScanChunks ==
    \A in \in ScanTexts :
        \A k \in 0..Len(in) : SameAsChunks(Position, in, k)

\* The same for the cuts that do not fall inside an encoded character.
C36_ScanChunksAtCharacters ==
    \A in \in ScanTexts :
        \A k \in 0..Len(in) :
            (ValidUTF8(Slice(in, 0, k)) /\ ValidUTF8(Slice(in, k, Len(in))))
                => SameAsChunks(Position, in, k)


(***************************************************************************)
(* C37  Going back and observing leave the source alone.  From every state *)
(* the calls can reach: UnreadRune, UnreadByte and every Seek whose target *)
(* is at the read cursor or before it (successful or not), whatever the    *)
(* source would do, make no read of the source and leave the source's      *)
(* position, w and the bytes of the buffer as they are; Pos is a copy of   *)
(* the Position and nothing else; and no Seek moves the source other than  *)
(* by reading it onward: after any Seek the source is where it was or      *)
(* further, and the buffered bytes are the bytes of the input that come    *)
(* just before the source's position.                                      *)
(***************************************************************************)
\* The call that returned res touched neither the source nor the buffer.
SourceUntouched(res) ==
    /\ res.reads = 0
    /\ res.t.src = src
    /\ res.t.w = w
    /\ res.t.buf = buf

C37_NoSourceAccess ==
    /\ SourceUntouched(UnreadRuneOp(Reader))
    /\ SourceUntouched(UnreadByteOp(Reader))
    /\ Pos(Reader) = Reader.pos
    /\ Slice(buf, 0, w) = Slice(input, src - w, src)
    /\ \A a \in SeekArgs, beh \in Behaviours :
          LET res == SeekOp(Reader, a[1], a[2], beh)
          IN  /\ (a[2] \in {SeekStart, SeekCurrent, SeekEnd}
                  /\ SeekNewR(Reader, a[1], a[2]) <= r)
                    => SourceUntouched(res)
              /\ res.t.src >= src
              /\ res.t.src - src <= res.reads * capacity
              /\ Slice(res.t.buf, 0, res.t.w)
                    = Slice(input, res.t.src - res.t.w, res.t.src)

\* The source has more bytes and nothing unread is buffered behind the
\* consumed bytes; an UnreadByte and a Seek backward succeed.
C37_Witness ==
    /\ src < Len(input)
    /\ 0 < r
    /\ r = w
    /\ UnreadByteOp(Reader).err = "nil"
    /\ \E a \in SeekArgs :
          /\ a[2] \in {SeekStart, SeekCurrent, SeekEnd}
          /\ SeekNewR(Reader, a[1], a[2]) < r
          /\ SeekOp(Reader, a[1], a[2], CHOOSE beh \in Behaviours : TRUE).err
                = "nil"


(***************************************************************************)
(* C38  Forward seeks within the capacity succeed.  From every state the   *)
(* calls can reach, with a source that works: a Seek that goes forward by  *)
(* at most capacity bytes to a target that is not beyond the end of the    *)
(* input succeeds, wherever the read cursor is in the buffer.              *)
(***************************************************************************)
C38_ForwardSeekSucceeds ==
    \A a \in ForwardArgs, beh \in NoFault :
        LET target == SeekTarget(a[1], a[2])
        IN  (/\ target > offset
             /\ target - offset <= capacity
             /\ target <= Len(input))
                => SeekOp(Reader, a[1], a[2], beh).err = "nil"

\* The same for the seeks whose target, counted from the start of the
\* buffer as it is before the call, is at most capacity.
C38_ForwardSeekInsideBuffer ==
    \A a \in ForwardArgs, beh \in NoFault :
        LET target == SeekTarget(a[1], a[2])
        IN  (/\ target > offset
             /\ r + (target - offset) <= capacity
             /\ target <= Len(input))
                => SeekOp(Reader, a[1], a[2], beh).err = "nil"


(***************************************************************************)
(* C40  BufferTooSmall cannot be returned.  The capacity of a reader is at *)
(* least utf8.UTFMax; and from every state the calls can reach, whatever   *)
(* the arguments and the source: every size ReadRune, ReadByte, Read and   *)
(* Seek ask fillAtLeast for is from 0 to capacity, and none of ReadRune,   *)
(* ReadByte, Read, UnreadRune, UnreadByte and Seek returns                 *)
(* ErrBufferTooSmall.                                                      *)
(***************************************************************************)
\* The lengths of the spans handed to Read: up to one that is read directly
\* however many bytes are buffered.
AllReadLens == 0..(2 * capacity + 1)

\* The size n can be asked of fillAtLeast (Read asks for 0 bytes in the
\* round after the one that fills its span).
FitsBuffer(n) == 0 <= n /\ n <= capacity

C40_NoBufferTooSmall ==
    /\ capacity >= UTFMax
    /\ \A n \in ReadRuneRequests \cup ReadByteRequests : FitsBuffer(n)
    /\ UnreadRuneOp(Reader).err # "ErrBufferTooSmall"
    /\ UnreadByteOp(Reader).err # "ErrBufferTooSmall"
    /\ \A beh \in Behaviours :
          /\ ReadRuneOp(Reader, beh).err # "ErrBufferTooSmall"
          /\ ReadByteOp(Reader, beh).err # "ErrBufferTooSmall"
          /\ \A needed \in AllReadLens :
                /\ ReadOp(Reader, needed, beh).err # "ErrBufferTooSmall"
                /\ \A n \in ReadRequests(Reader, needed, beh) : FitsBuffer(n)
          /\ \A a \in SeekArgs \cup ForwardArgs :
                /\ SeekOp(Reader, a[1], a[2], beh).err # "ErrBufferTooSmall"
                /\ \A n \in SeekRequests(Reader, a[1], a[2]) : FitsBuffer(n)

\* The reader was asked for a capacity below utf8.UTFMax; bytes are
\* consumed; a Read asks fillAtLeast for a full buffer, a Seek for less.
C40_Witness ==
    /\ capacity = ClampCapacity(UTFMax - 1)
    /\ 0 < r
    /\ \E needed \in AllReadLens, beh \in Behaviours :
          capacity \in ReadRequests(Reader, needed, beh)
    /\ \E a \in ForwardArgs : SeekRequests(Reader, a[1], a[2]) # {}


(***************************************************************************)
(* C39  No deadlock.  For every interleaving of the steps of concurrent    *)
(* calls on a reader and on Position objects (the reader's and copies): a  *)
(* caller that is in no call holds no mutex; a caller never locks a mutex  *)
(* it holds; it locks the reader's mutex only while it holds none, and a   *)
(* Position's only while it holds no Position's (the order is reader,      *)
(* then Position); it unlocks only what it holds; whenever callers are in  *)
(* calls, one of them can make its next step; and every call returns,      *)
(* given that the source's reads return and that a waiter gets a mutex     *)
(* that is free again and again.                                           *)
(***************************************************************************)
\* The mutexes the caller t holds.
Held(t) == {m \in 0..Len(objs) : Holder(m) = t}

\* The caller t waits for a mutex.
Waiting(t) == InCall(t) /\ NextStep(t).do = "lock"

C39_NoDeadlock ==
    /\ [](/\ \A t \in Threads :
                /\ threads[t].pc = "idle" => Held(t) = {}
                /\ Waiting(t) =>
                      /\ Holder(NextStep(t).m) # t
                      /\ NextStep(t).m = ReaderMu => Held(t) = {}
                      /\ NextStep(t).m # ReaderMu => Held(t) \subseteq {ReaderMu}
                /\ (InCall(t) /\ NextStep(t).do = "unlock")
                      => Holder(NextStep(t).m) = t
          /\ (\E t \in Threads : threads[t].pc = "call") =>
                \E t \in Threads :
                    /\ threads[t].pc = "call"
                    /\ Waiting(t) => Holder(NextStep(t).m) = 0)
    /\ \A t \in Threads :
          (threads[t].pc = "call") ~> (threads[t].pc = "idle")

\* A caller holds the reader's mutex and the mutex of the reader's
\* Position, another waits for the reader's mutex, and there is a copy.
C39_Witness ==
    \E t, u \in Threads :
        /\ Held(t) = {ReaderMu, 1}
        /\ Waiting(u)
        /\ NextStep(u).m = ReaderMu
        /\ Len(objs) > 1

====
